---- MODULE Spec2Model ----
\* TDI Auto Trading dashboard (src/web/static/js/main.js): the client-side
\* symbol-set manager, the configuration form and the performance-data pipeline,
\* as state machines.
\*
\* Strings whose characters the code inspects (symbols, search queries, error
\* texts) are sequences of one-character strings; an array is a sequence.
\* The backend (not in the browser code) is modelled from the HTTP/JSON
\* contract: see ServerHandle and the Perf* response sets.
EXTENDS Integers, Sequences, FiniteSets, Bags, TLC

VARIABLES
    \* ---- main.js globals (lines 4-8)
    priceChart, tdiChart, availableSymbols, selectedSymbols, currentSymbol,
    \* ---- DOM of the trading-pairs section
    availableList,        \* entries of #available-symbols, each bound to its symbol
    selectedList,         \* entries of #selected-symbols, each with a remove button
    symbolSearch,         \* value of the #symbol-search input
    \* ---- DOM of the dashboard and of the performance section
    performanceSymbol,    \* options of the #performance-symbol chooser (after the blank one)
    activeSymbolsCount, totalTradesCount, winRate,
    symbolStats,          \* the four #symbol-* stat cells
    currentPosition,      \* content of #current-position
    tradeHistory,         \* content of #trade-history
    liveCharts,           \* Chart objects constructed and not destroyed
    loadingClass,         \* ids of the elements carrying class loading-container
    loadingInd,           \* per region, the number of its .loading-indicator children
    lastAlert,            \* the toast most recently appended to #alert-container
    \* ---- the network and the backend
    net,                  \* bag of the fetches in flight
    srvSymbols,           \* the selected symbols the backend has stored
    \* ---- the configuration form and loadConfig's fetch
    configForm,           \* state of the controls of #config-form
    configFetch,          \* loadConfig's fetch: "sent", or "settled"
    \* ---- history
    selectedKnown,        \* a /api/trading_symbols response has been assigned to selectedSymbols
    persisted,            \* the save that ran alone: in flight, or settled with success
    nextSeq,              \* issue number of the next performance request
    lastSettled,          \* the performance request that settled last
    configLoaded,         \* the entries of the map loadConfig's fetch was answered with
    \* ---- #alert-container
    toasts                \* the toasts followed from showAlert to their removal, oldest first

symVars  == <<availableSymbols, selectedSymbols, availableList, selectedList, symbolSearch>>
dashVars == <<performanceSymbol, activeSymbolsCount, totalTradesCount, winRate>>
perfVars == <<priceChart, tdiChart, currentSymbol, symbolStats, currentPosition,
              tradeHistory, liveCharts, nextSeq, lastSettled>>
uiVars   == <<loadingClass, loadingInd, lastAlert>>
netVars  == <<net, srvSymbols, selectedKnown, persisted>>
cfgVars  == <<configForm, configFetch, configLoaded>>
vars     == <<symVars, dashVars, perfVars, uiVars, netVars, cfgVars, toasts>>

\* ------------------------------------------------------------------ bounds
\* Fetches of the symbol manager that may be in flight at once.
MaxInFlight == 2

\* Performance requests issued in one run.
MaxPerfRequests == 3

\* Toasts followed from showAlert to their removal in one run.
MaxToasts == 3

\* ------------------------------------------------------------------ strings
BTCUSDT == <<"B","T","C","U","S","D","T">>
ETHUSDT == <<"E","T","H","U","S","D","T">>
BNBUSDT == <<"B","N","B","U","S","D","T">>

\* The tradable universe /api/symbols answers with.
Universe == <<BTCUSDT, ETHUSDT>>

\* What the user may type into the search box.
Queries == { <<>>, <<"b","t">> }

\* The universe and the queries of the runs that exercise the search box: a
\* prefix of a symbol in either letter case, an inner substring, a suffix
\* common to all symbols, a text no symbol contains.
Universe3 == <<BTCUSDT, ETHUSDT, BNBUSDT>>
FilterQueries == { <<>>, <<"B","T">>, <<"b","t">>, <<"n","b">>, <<"u","s","d","t">>, <<"x">> }

\* What the backend may hold as the stored selection when the page loads.
InitStored == { <<>>, <<ETHUSDT>>, <<BTCUSDT, ETHUSDT>> }

\* String.prototype.toUpperCase, on the letters that occur in the model.
UpperChar(c) ==
    CASE c = "b" -> "B" [] c = "t" -> "T" [] c = "e" -> "E" [] c = "n" -> "N"
      [] c = "u" -> "U" [] c = "s" -> "S" [] c = "d" -> "D" [] c = "x" -> "X"
      [] OTHER -> c

ToUpperCase(s) == [i \in 1..Len(s) |-> UpperChar(s[i])]

\* String.prototype.includes: sub occurs in s at some position.
StrIncludes(s, sub) ==
    \E i \in 0..Len(s) : i + Len(sub) <= Len(s) /\ SubSeq(s, i + 1, i + Len(sub)) = sub

\* ------------------------------------------------------------------ arrays
\* Array.prototype.includes / indexOf (0 for the code's -1) / splice(index, 1).
ArrIncludes(arr, x) == \E i \in 1..Len(arr) : arr[i] = x

IndexOf(arr, x) ==
    IF ArrIncludes(arr, x)
    THEN CHOOSE i \in 1..Len(arr) : arr[i] = x /\ \A j \in 1..(i - 1) : arr[j] # x
    ELSE 0

RemoveAtAndAfter(arr, i) == SubSeq(arr, 1, i - 1)
RemoveAt(arr, i) == SubSeq(arr, 1, i - 1) \o SubSeq(arr, i + 1, Len(arr))

ToSet(arr) == {arr[i] : i \in 1..Len(arr)}

\* ------------------------------------------------------------------ alerts, loading
\* A toast: showAlert(message, type); `detail` is the backend's error text when
\* the message quotes it.
NoAlert == [type |-> "none", text |-> "none", detail |-> <<>>]
Alert(type, text) == [type |-> type, text |-> text, detail |-> <<>>]
AlertQuoting(type, text, detail) == [type |-> type, text |-> text, detail |-> detail]

\* ------------------------------------------------------------------ requests
\* A fetch in flight. stage "sent": not yet handled by the backend; "done": the
\* backend has handled it and its answer is on the way, with the parsed JSON
\* value `data` and, for the two POSTs, the `success` flag of the body. `body`
\* is what the request carried (for a performance request, the symbol in its
\* path); `tag` is history (see persisted) and `seq` the issue number of a
\* performance request. The HTTP status of the answer is an input of the
\* handler that consumes it.
NoData == <<>>
NoTag == [st |-> "none", val |-> <<>>]
Tag(st, v) == [st |-> st, val |-> v]

Request(kind, body, tag) ==
    [kind |-> kind, body |-> body, stage |-> "sent", success |-> FALSE, data |-> NoData,
     tag |-> tag, seq |-> 0]

Answer(r, success, data) == [r EXCEPT !.stage = "done", !.success = success, !.data = data]

InFlight == BagToSet(net)
Send(bag, r) == bag (+) SetToBag({r})
Take(bag, r) == bag (-) SetToBag({r})
KindInFlight(bag, kind) == \E r \in BagToSet(bag) : r.kind = kind

\* ------------------------------------------------------------------ rendering
\* updateAvailableSymbolsList(symbols): the container is emptied (which also
\* drops a loading indicator appended to it) and one entry is built per symbol.
RenderAvailable(symbols) == symbols
IndAfterRenderAvailable(ind) == [ind EXCEPT !["available-symbols"] = 0]

\* updateSelectedSymbolsList(): the container is emptied and rebuilt from
\* selectedSymbols; the active-symbols count is written after the loop only,
\* so not on the early return for an empty array.
IndAfterRenderSelected(ind) == [ind EXCEPT !["selected-symbols"] = 0]
CountAfterRenderSelected(sel, count) == IF Len(sel) = 0 THEN count ELSE Len(sel)

\* The click handler of an entry of the available list (lines 244-257):
\* selectedSymbols after it, for the entry's symbol, and the rendered list
\* after it, for the i-th entry: the symbol is pushed and the entry removed
\* only when the symbol is not selected yet.
SelectedAfterSelectAlways(sel, symbol) == Append(sel, symbol)
SelectedAfterSelectUnlessLast(sel, symbol) ==
    IF sel # <<>> /\ sel[Len(sel)] = symbol THEN sel ELSE Append(sel, symbol)
SelectedAfterSelect(sel, symbol) ==
    IF ~ArrIncludes(sel, symbol) THEN Append(sel, symbol) ELSE sel

ListAfterSelectAlways(list, sel, i) == RemoveAt(list, i)
ListAfterSelect(list, sel, i) ==
    IF ~ArrIncludes(sel, list[i]) THEN RemoveAt(list, i) ELSE list

\* filterSymbols(query): the symbols of availableSymbols that are not selected
\* and contain the upper-cased query.
FilterSymbolsPrefix(avail, sel, query) ==
    SelectSeq(avail, LAMBDA symbol :
        /\ ~ArrIncludes(sel, symbol)
        /\ Len(query) <= Len(symbol)
        /\ SubSeq(symbol, 1, Len(query)) = ToUpperCase(query))

FilterSymbolsIgnoringQuery(avail, sel, query) ==
    SelectSeq(avail, LAMBDA symbol : ~ArrIncludes(sel, symbol))

FilterSymbolsQueryOnly(avail, sel, query) ==
    SelectSeq(avail, LAMBDA symbol : StrIncludes(symbol, ToUpperCase(query)))

FilterSymbols(avail, sel, query) ==
    SelectSeq(avail, LAMBDA symbol :
        ~ArrIncludes(sel, symbol) /\ StrIncludes(symbol, ToUpperCase(query)))

\* loadAvailableSymbols' response handler: availableSymbols minus selectedSymbols.
FilterSelectedOutSearched(avail, sel) == FilterSymbols(avail, sel, symbolSearch)

FilterSelectedOut(avail, sel) ==
    SelectSeq(avail, LAMBDA symbol : ~ArrIncludes(sel, symbol))

\* What saveSelectedSymbols puts in the request body.
SaveBody(sel) == sel

\* What saveSelectedSymbols' success branch writes into the chooser.
ChooserAfterSave(sel, r) == sel

\* What loadTradingSymbols' handler assigns to selectedSymbols.
SelectedAfterLoadMerged(sel, data) ==
    sel \o SelectSeq(data, LAMBDA symbol : ~ArrIncludes(sel, symbol))

SelectedAfterLoad(sel, data) == data

\* currentSymbol after the chooser was rebuilt with `options` (lines 184-193,
\* 348-357): the rebuild resets the select element, not the variable.
CurrentAfterRebuildReset(current, options) ==
    IF ArrIncludes(options, current) THEN current ELSE <<>>
CurrentAfterRebuild(current, options) == current

\* The elements showLoading and hideLoading are called with.
Regions ==
    {"config-form", "available-symbols", "selected-symbols", "performance-stats",
     "run-strategy"}
IndicatorsAtLoad == [id \in Regions |-> IF id = "config-form" THEN 1 ELSE 0]

\* showLoading(id) (lines 818-832): the class is added, and an indicator is
\* appended unless the element already holds one.
\* hideLoading(id) (lines 835-847): the class is removed, and the first
\* indicator found, if any, is removed.
ShowClass(cls, id) == cls \cup {id}
ShowIndAlways(ind, id) == [ind EXCEPT ![id] = @ + 1]
ShowInd(ind, id) == IF ind[id] = 0 THEN [ind EXCEPT ![id] = 1] ELSE ind
HideClassNever(cls, id) == cls
HideClass(cls, id) == cls \ {id}
HideIndKept(ind, id) == ind
HideInd(ind, id) == IF ind[id] > 0 THEN [ind EXCEPT ![id] = @ - 1] ELSE ind

\* ------------------------------------------------------------------ configuration form
\* String.prototype.toLowerCase, on the letters of the alphabet.
UpperLetters ==
    <<"A","B","C","D","E","F","G","H","I","J","K","L","M","N","O","P","Q","R","S","T","U",
      "V","W","X","Y","Z">>
LowerLetters ==
    <<"a","b","c","d","e","f","g","h","i","j","k","l","m","n","o","p","q","r","s","t","u",
      "v","w","x","y","z">>
LowerChar(c) ==
    IF \E i \in 1..Len(UpperLetters) : UpperLetters[i] = c
    THEN LowerLetters[CHOOSE i \in 1..Len(UpperLetters) : UpperLetters[i] = c]
    ELSE c
ToLowerCase(s) == [i \in 1..Len(s) |-> LowerChar(s[i])]

StrTrue == <<"T","r","u","e">>
StrFalse == <<"F","a","l","s","e">>
StrTrueLower == <<"t","r","u","e">>
StrTrueUpper == <<"T","R","U","E">>
StrDebug == <<"D","E","B","U","G">>
StrInfo == <<"I","N","F","O">>
StrWarning == <<"W","A","R","N","I","N","G">>
StrError == <<"E","R","R","O","R">>
StrCritical == <<"C","R","I","T","I","C","A","L">>
StrInfoLower == <<"i","n","f","o">>
StrApiKey == <<"k","3","y">>

\* Controls of #config-form with a name, in tree order: one text input, the
\* first and the last checkbox (all five carry value="True"), one select. The
\* form's other controls are of these kinds (text, password and number inputs,
\* checkboxes, selects).
ConfigControls ==
    << [name |-> "BINANCE_API_KEY", type |-> "text"],
       [name |-> "USE_TESTNET", type |-> "checkbox"],
       [name |-> "LOG_LEVEL", type |-> "select"],
       [name |-> "BACKTEST_MODE", type |-> "checkbox"] >>

ControlNames == {ConfigControls[i].name : i \in 1..Len(ConfigControls)}
ControlType(name) ==
    (CHOOSE c \in {ConfigControls[i] : i \in 1..Len(ConfigControls)} : c.name = name).type

\* The option values of the LOG_LEVEL select.
LogLevelOptions == <<StrDebug, StrInfo, StrWarning, StrError, StrCritical>>

\* The form as parsed from the markup: the text input empty, the checkboxes
\* unchecked, the first option of the select selected. A checkbox holds its
\* checkedness; a text input and a select hold their value, which for a select
\* is the value of the selected option, or <<>> when no option is selected.
ConfigFormInitial ==
    [BINANCE_API_KEY |-> <<>>, USE_TESTNET |-> FALSE, LOG_LEVEL |-> LogLevelOptions[1],
     BACKTEST_MODE |-> FALSE]

\* What loadConfig's loop makes of one control for a loaded value (lines
\* 117-121): a checkbox is checked iff value.toLowerCase() === 'true'; any
\* other control is assigned element.value = value, upon which a text input
\* holds the string and a select selects the option with that value, or no
\* option when there is none with that value.
ControlAfterLoad(type, value) ==
    CASE type = "checkbox" -> ToLowerCase(value) = StrTrueLower
      [] type = "select" -> IF ArrIncludes(LogLevelOptions, value) THEN value ELSE <<>>
      [] OTHER -> value

\* loadConfig's loop over Object.entries(data) (lines 114-124): entries whose
\* key names no control of the form are skipped.
RECURSIVE FillForm(_, _)
FillForm(form, entries) ==
    IF entries = <<>> THEN form
    ELSE LET key == entries[1][1]
             value == entries[1][2]
             filled == IF key \in ControlNames
                       THEN [form EXCEPT ![key] = ControlAfterLoad(ControlType(key), value)]
                       ELSE form
         IN FillForm(filled, Tail(entries))

\* new FormData(form) (line 140): one entry <<name, value>> per control in tree
\* order; a checkbox contributes its value attribute when checked and nothing
\* otherwise, a select contributes the value of its selected option, if any.
RECURSIVE FormData(_, _)
FormData(form, controls) ==
    IF controls = <<>> THEN <<>>
    ELSE LET c == Head(controls)
             entry == CASE c.type = "checkbox" ->
                             IF form[c.name] THEN << <<c.name, StrTrue>> >> ELSE <<>>
                        [] c.type = "select" ->
                             IF form[c.name] = <<>> THEN <<>>
                             ELSE << <<c.name, form[c.name]>> >>
                        [] OTHER -> << <<c.name, form[c.name]>> >>
         IN entry \o FormData(form, Tail(controls))

\* formData.set(name, value): the first entry of that name gets the value and
\* the others of that name are dropped; with no such entry, one is appended.
FormDataSet(entries, name, value) ==
    IF \E i \in 1..Len(entries) : entries[i][1] = name
    THEN LET first == CHOOSE i \in 1..Len(entries) :
                          entries[i][1] = name /\ \A j \in 1..(i - 1) : entries[j][1] # name
             replaced == [entries EXCEPT ![first] = <<name, value>>]
         IN SubSeq(replaced, 1, first) \o
            SelectSeq(SubSeq(replaced, first + 1, Len(replaced)), LAMBDA e : e[1] # name)
    ELSE Append(entries, <<name, value>>)

\* saveConfig's loop over the checkboxes (lines 143-148): each unchecked one
\* is set to 'False'.
ForceUncheckedOmitted(entries, form, controls) == entries

RECURSIVE ForceUnchecked(_, _, _)
ForceUnchecked(entries, form, controls) ==
    IF controls = <<>> THEN entries
    ELSE LET c == Head(controls)
             forced == IF c.type = "checkbox" /\ ~form[c.name]
                       THEN FormDataSet(entries, c.name, StrFalse)
                       ELSE entries
         IN ForceUnchecked(forced, form, Tail(controls))

\* The body saveConfig posts.
SaveConfigBody(form) == ForceUnchecked(FormData(form, ConfigControls), form, ConfigControls)

\* What GET /api/config may answer: maps of the form's keys with the values
\* the form writes; a map with other spellings of the values; a map that also
\* has TRADING_SYMBOLS, a key of the backend's configuration (README.md,
\* line 136) that the form has no control for.
ConfigStored ==
    { << <<"BINANCE_API_KEY", StrApiKey>>, <<"USE_TESTNET", StrTrue>>,
         <<"LOG_LEVEL", StrWarning>>, <<"BACKTEST_MODE", StrFalse>> >>,
      << <<"USE_TESTNET", StrTrueUpper>>, <<"BACKTEST_MODE", StrTrueLower>>,
         <<"LOG_LEVEL", StrInfoLower>> >>,
      << <<"BINANCE_API_KEY", StrApiKey>>, <<"TRADING_SYMBOLS", BTCUSDT>>,
         <<"USE_TESTNET", StrFalse>>, <<"LOG_LEVEL", StrInfo>>,
         <<"BACKTEST_MODE", StrTrue>> >> }

\* ------------------------------------------------------------------ Init
\* The state when the DOMContentLoaded handler returns: loadConfig() and
\* loadTradingSymbols() have issued their fetches, updateDashboardStats() has
\* written the four counters.
\* The dashboard's win rate: the text '0%' written by updateDashboardStats, or
\* a rate printed with two decimals, held in hundredths of a percent.
WinRateZero == [fixed |-> FALSE, hundredths |-> 0]

\* What updateDashboardStats writes into #total-trades-count (line 380), the
\* element showing `count` next to the trade history `history`.
DashboardTradesKept(count, history) == IF history.kind = "rows" THEN count ELSE 0
DashboardTrades(count, history) == 0

\* Views of the performance section. `seq` is the issue number of the request
\* whose response a view shows (0: none).
View(kind, seq) == [kind |-> kind, seq |-> seq]
\* The Risk/Reward cell of the position panel: absent ("none"), the text 'N/A',
\* or what toFixed(2) prints: a number held in hundredths, 'Infinity',
\* '-Infinity' or 'NaN'.
Ratio(kind, hundredths) == [kind |-> kind, hundredths |-> hundredths]
NoRatio == Ratio("none", 0)
Panel(kind, info, text, symbol, seq) ==
    [kind |-> kind, info |-> info, text |-> text, symbol |-> symbol, seq |-> seq,
     rr |-> NoRatio]
NoPanel == Panel("initial", "none", <<>>, <<>>, 0)
Settled(seq, symbol, kind) == [seq |-> seq, symbol |-> symbol, kind |-> kind]

Init ==
    /\ priceChart = 0 /\ tdiChart = 0
    /\ availableSymbols = <<>> /\ selectedSymbols = <<>> /\ currentSymbol = <<>>
    /\ availableList = <<>> /\ selectedList = <<>> /\ symbolSearch = <<>>
    /\ performanceSymbol = <<>>
    /\ activeSymbolsCount = 0 /\ totalTradesCount = 0 /\ winRate = WinRateZero
    /\ symbolStats = View("initial", 0) /\ currentPosition = NoPanel
    /\ tradeHistory = View("initial", 0)
    /\ liveCharts = {}
    /\ loadingClass = {"config-form"} /\ loadingInd = IndicatorsAtLoad
    /\ lastAlert = NoAlert
    /\ net = SetToBag({Request("loadTradingSymbols", NoData, NoTag)})
    /\ srvSymbols \in InitStored
    /\ selectedKnown = FALSE
    /\ persisted = NoTag
    /\ nextSeq = 1
    /\ lastSettled = Settled(0, <<>>, "none")
    /\ configForm = ConfigFormInitial
    /\ configFetch = "sent"
    /\ configLoaded = <<>>
    /\ toasts = <<>>

\* ------------------------------------------------------------------ user actions
\* Click on the i-th entry of the available list (lines 244-257).
SelectClick(i) ==
    /\ i \in 1..Len(availableList)
    /\ LET symbol == availableList[i] IN
       /\ selectedSymbols' = SelectedAfterSelect(selectedSymbols, symbol)
       /\ availableList' = ListAfterSelect(availableList, selectedSymbols, i)
       /\ IF ~ArrIncludes(selectedSymbols, symbol)
          THEN /\ selectedList' = selectedSymbols'
               /\ loadingInd' = IndAfterRenderSelected(loadingInd)
               /\ activeSymbolsCount' =
                     CountAfterRenderSelected(selectedSymbols', activeSymbolsCount)
          ELSE UNCHANGED <<selectedList, loadingInd, activeSymbolsCount>>
    /\ UNCHANGED <<availableSymbols, symbolSearch, performanceSymbol, totalTradesCount,
                   winRate, perfVars, loadingClass, lastAlert, netVars>>
    /\ UNCHANGED <<cfgVars, toasts>>

\* Click on the remove button of the i-th entry of the selected list (lines 286-308).
RemoveClick(i) ==
    /\ i \in 1..Len(selectedList)
    /\ LET symbol == selectedList[i]
           index  == IndexOf(selectedSymbols, symbol)
       IN
       /\ selectedSymbols' = IF index # 0 THEN RemoveAt(selectedSymbols, index)
                             ELSE selectedSymbols
       /\ selectedList' = selectedSymbols'
       /\ activeSymbolsCount' = CountAfterRenderSelected(selectedSymbols', activeSymbolsCount)
       /\ availableSymbols' = IF ~ArrIncludes(availableSymbols, symbol)
                              THEN Append(availableSymbols, symbol)
                              ELSE availableSymbols
       /\ availableList' = RenderAvailable(
              FilterSymbols(availableSymbols', selectedSymbols', symbolSearch))
       /\ loadingInd' = IndAfterRenderAvailable(IndAfterRenderSelected(loadingInd))
    /\ UNCHANGED <<symbolSearch, performanceSymbol, totalTradesCount, winRate, perfVars,
                   loadingClass, lastAlert, netVars>>
    /\ UNCHANGED <<cfgVars, toasts>>

\* Typing in the search box (lines 68-70, 319-328).
SearchInput(q) ==
    /\ symbolSearch' = q
    /\ availableList' = RenderAvailable(FilterSymbols(availableSymbols, selectedSymbols, q))
    /\ loadingInd' = IndAfterRenderAvailable(loadingInd)
    /\ UNCHANGED <<availableSymbols, selectedSymbols, selectedList, dashVars, perfVars,
                   loadingClass, lastAlert, netVars>>
    /\ UNCHANGED <<cfgVars, toasts>>

\* Click on refresh-symbols: loadAvailableSymbols() (lines 73-75, 205-208).
RefreshSymbolsClick ==
    /\ BagCardinality(net) < MaxInFlight
    /\ loadingClass' = ShowClass(loadingClass, "available-symbols")
    /\ loadingInd' = ShowInd(loadingInd, "available-symbols")
    /\ net' = Send(net, Request("loadAvailableSymbols", NoData, NoTag))
    /\ UNCHANGED <<symVars, dashVars, perfVars, lastAlert, srvSymbols, selectedKnown,
                   persisted>>
    /\ UNCHANGED <<cfgVars, toasts>>

\* Click on save-symbols: saveSelectedSymbols() up to its fetch (lines 78-80, 331-340).
SaveSymbolsClick ==
    /\ BagCardinality(net) < MaxInFlight
    /\ loadingClass' = ShowClass(loadingClass, "selected-symbols")
    /\ loadingInd' = ShowInd(loadingInd, "selected-symbols")
    /\ net' = Send(net, Request("saveSelectedSymbols", SaveBody(selectedSymbols), NoTag))
    /\ persisted' = IF KindInFlight(net, "saveSelectedSymbols") THEN NoTag
                    ELSE Tag("inflight", SaveBody(selectedSymbols))
    /\ UNCHANGED <<symVars, dashVars, perfVars, lastAlert, srvSymbols, selectedKnown>>
    /\ UNCHANGED <<cfgVars, toasts>>

\* Submit of the configuration form: saveConfig() up to its fetch (lines 62-65, 136-153).
ConfigSubmit ==
    /\ BagCardinality(net) < MaxInFlight
    /\ loadingClass' = ShowClass(loadingClass, "config-form")
    /\ loadingInd' = ShowInd(loadingInd, "config-form")
    /\ net' = Send(net, Request("saveConfig", SaveConfigBody(configForm), NoTag))
    /\ UNCHANGED <<symVars, dashVars, perfVars, lastAlert, srvSymbols, selectedKnown,
                   persisted>>
    /\ UNCHANGED <<cfgVars, toasts>>

\* ------------------------------------------------------------------ backend
\* The backend handles one request: GET /api/trading_symbols answers the stored
\* selection, GET /api/symbols the universe, POST /api/trading_symbols stores
\* the symbols it is sent exactly when it reports success, POST /api/config
\* reports success or not.
ServerHandle(r) ==
    /\ r \in InFlight /\ r.stage = "sent"
    /\ r.kind \in {"loadTradingSymbols", "loadAvailableSymbols", "saveSelectedSymbols",
                   "saveConfig"}
    /\ \E success \in BOOLEAN :
         /\ r.kind \in {"loadTradingSymbols", "loadAvailableSymbols"} => ~success
         /\ LET data == CASE r.kind = "loadTradingSymbols" -> srvSymbols
                          [] r.kind = "loadAvailableSymbols" -> Universe
                          [] OTHER -> NoData
            IN net' = Send(Take(net, r), Answer(r, success, data))
         /\ srvSymbols' = IF r.kind = "saveSelectedSymbols" /\ success THEN r.body
                          ELSE srvSymbols
    /\ UNCHANGED <<symVars, dashVars, perfVars, uiVars, selectedKnown, persisted>>
    /\ UNCHANGED <<cfgVars, toasts>>

\* The promise chain of a fetch runs its .then handlers when an answer has
\* arrived whose body parses as JSON, whatever its HTTP status `ok` (2xx or
\* not): no handler of the symbol manager reads response.ok. It runs .catch
\* when fetch() rejects (the transport fails, before or after the backend has
\* handled the request) or response.json() rejects (the body is not JSON).
Parsed(r, ok) == r.stage = "done" /\ ok \in BOOLEAN
Rejected(r) == r.stage \in {"sent", "done"}

\* ------------------------------------------------------------------ response handlers
\* loadTradingSymbols: .then(data => ...) (lines 178-197), ending with the
\* call of loadAvailableSymbols() up to its fetch.
LoadTradingSymbolsThen(r, ok) ==
    /\ r \in InFlight /\ r.kind = "loadTradingSymbols" /\ Parsed(r, ok)
    /\ selectedSymbols' = SelectedAfterLoad(selectedSymbols, r.data)
    /\ selectedList' = selectedSymbols'
    /\ activeSymbolsCount' = CountAfterRenderSelected(selectedSymbols', activeSymbolsCount)
    /\ performanceSymbol' = r.data
    /\ currentSymbol' = CurrentAfterRebuild(currentSymbol, performanceSymbol')
    /\ loadingClass' = ShowClass(loadingClass, "available-symbols")
    /\ loadingInd' = ShowInd(IndAfterRenderSelected(loadingInd), "available-symbols")
    /\ net' = Send(Take(net, r), Request("loadAvailableSymbols", NoData, NoTag))
    /\ selectedKnown' = TRUE
    /\ UNCHANGED <<availableSymbols, availableList, symbolSearch, totalTradesCount, winRate,
                   lastAlert, srvSymbols, persisted>>
    /\ UNCHANGED <<priceChart, tdiChart, symbolStats, currentPosition, tradeHistory,
                   liveCharts, nextSeq, lastSettled>>
    /\ UNCHANGED <<cfgVars, toasts>>

\* loadTradingSymbols: .catch (lines 198-201).
LoadTradingSymbolsCatch(r) ==
    /\ r \in InFlight /\ r.kind = "loadTradingSymbols" /\ Rejected(r)
    /\ lastAlert' = Alert("danger", "Failed to load trading symbols. Please try again.")
    /\ net' = Take(net, r)
    /\ UNCHANGED <<symVars, dashVars, perfVars, loadingClass, loadingInd, srvSymbols,
                   selectedKnown, persisted>>
    /\ UNCHANGED <<cfgVars, toasts>>

\* loadAvailableSymbols: .then(data => ...) (lines 210-220).
LoadAvailableSymbolsThen(r, ok) ==
    /\ r \in InFlight /\ r.kind = "loadAvailableSymbols" /\ Parsed(r, ok)
    /\ availableSymbols' = r.data
    /\ availableList' = RenderAvailable(FilterSelectedOut(availableSymbols', selectedSymbols))
    /\ loadingClass' = HideClass(loadingClass, "available-symbols")
    /\ loadingInd' = HideInd(IndAfterRenderAvailable(loadingInd), "available-symbols")
    /\ net' = Take(net, r)
    /\ UNCHANGED <<selectedSymbols, selectedList, symbolSearch, dashVars, perfVars,
                   lastAlert, srvSymbols, selectedKnown, persisted>>
    /\ UNCHANGED <<cfgVars, toasts>>

\* loadAvailableSymbols: .catch (lines 221-225).
LoadAvailableSymbolsCatch(r) ==
    /\ r \in InFlight /\ r.kind = "loadAvailableSymbols" /\ Rejected(r)
    /\ loadingClass' = HideClass(loadingClass, "available-symbols")
    /\ loadingInd' = HideInd(loadingInd, "available-symbols")
    /\ lastAlert' = Alert("danger", "Failed to load available symbols. Please try again.")
    /\ net' = Take(net, r)
    /\ UNCHANGED <<symVars, dashVars, perfVars, srvSymbols, selectedKnown, persisted>>
    /\ UNCHANGED <<cfgVars, toasts>>

\* saveSelectedSymbols: .then(data => ...) (lines 342-364); its success branch
\* ends with updateDashboardStats() (lines 373-385).
SaveSelectedSymbolsThen(r, ok) ==
    /\ r \in InFlight /\ r.kind = "saveSelectedSymbols" /\ Parsed(r, ok)
    /\ loadingClass' = HideClass(loadingClass, "selected-symbols")
    /\ loadingInd' = HideInd(loadingInd, "selected-symbols")
    /\ net' = Take(net, r)
    /\ IF r.success
       THEN /\ lastAlert' = Alert("success", "Trading symbols saved successfully!")
            /\ performanceSymbol' = ChooserAfterSave(selectedSymbols, r)
            /\ currentSymbol' = CurrentAfterRebuild(currentSymbol, performanceSymbol')
            /\ activeSymbolsCount' = Len(selectedSymbols)
            /\ totalTradesCount' = DashboardTrades(totalTradesCount, tradeHistory)
            /\ winRate' = WinRateZero
            /\ persisted' = IF persisted.st = "inflight" THEN Tag("settled", persisted.val)
                            ELSE persisted
       ELSE /\ lastAlert' = Alert("danger", "Failed to save trading symbols: ")
            /\ persisted' = IF persisted.st = "inflight" THEN NoTag ELSE persisted
            /\ UNCHANGED <<dashVars, currentSymbol>>
    /\ UNCHANGED <<symVars, srvSymbols, selectedKnown>>
    /\ UNCHANGED <<priceChart, tdiChart, symbolStats, currentPosition, tradeHistory,
                   liveCharts, nextSeq, lastSettled>>
    /\ UNCHANGED <<cfgVars, toasts>>

\* The toast of saveSelectedSymbols' .catch (line 368).
AlertSaveRejectedAsInfo == Alert("info", "Failed to save trading symbols. Please try again.")
AlertSaveRejected == Alert("danger", "Failed to save trading symbols. Please try again.")

\* saveSelectedSymbols: .catch (lines 365-369).
SaveSelectedSymbolsCatch(r) ==
    /\ r \in InFlight /\ r.kind = "saveSelectedSymbols" /\ Rejected(r)
    /\ loadingClass' = HideClass(loadingClass, "selected-symbols")
    /\ loadingInd' = HideInd(loadingInd, "selected-symbols")
    /\ lastAlert' = AlertSaveRejected
    /\ net' = Take(net, r)
    /\ persisted' = IF persisted.st = "inflight" THEN NoTag ELSE persisted
    /\ UNCHANGED <<symVars, dashVars, perfVars, srvSymbols, selectedKnown>>
    /\ UNCHANGED <<cfgVars, toasts>>

\* The fetch saveConfig's success branch ends with: loadTradingSymbols() up to
\* its fetch (line 161).
ReloadAfterConfigSaveAvailable(tag) == Request("loadAvailableSymbols", NoData, tag)
ReloadAfterConfigSave(tag) == Request("loadTradingSymbols", NoData, tag)

\* saveConfig: .then(data => ...) (lines 155-166); its success branch calls
\* loadTradingSymbols() up to its fetch, then updateDashboardStats().
SaveConfigThen(r, ok) ==
    /\ r \in InFlight /\ r.kind = "saveConfig" /\ Parsed(r, ok)
    /\ loadingClass' = HideClass(loadingClass, "config-form")
    /\ loadingInd' = HideInd(loadingInd, "config-form")
    /\ IF r.success
       THEN /\ lastAlert' = Alert("success", "Configuration saved successfully!")
            /\ net' = Send(Take(net, r), ReloadAfterConfigSave(
                              IF persisted.st = "settled" THEN persisted ELSE NoTag))
            /\ activeSymbolsCount' = Len(selectedSymbols)
            /\ totalTradesCount' = DashboardTrades(totalTradesCount, tradeHistory)
            /\ winRate' = WinRateZero
       ELSE /\ lastAlert' = Alert("danger", "Failed to save configuration: ")
            /\ net' = Take(net, r)
            /\ UNCHANGED <<activeSymbolsCount, totalTradesCount, winRate>>
    /\ UNCHANGED <<symVars, performanceSymbol, perfVars, srvSymbols, selectedKnown,
                   persisted>>
    /\ UNCHANGED <<cfgVars, toasts>>

\* saveConfig: .catch (lines 167-171).
SaveConfigCatch(r) ==
    /\ r \in InFlight /\ r.kind = "saveConfig" /\ Rejected(r)
    /\ loadingClass' = HideClass(loadingClass, "config-form")
    /\ loadingInd' = HideInd(loadingInd, "config-form")
    /\ lastAlert' = Alert("danger", "Failed to save configuration. Please try again.")
    /\ net' = Take(net, r)
    /\ UNCHANGED <<symVars, dashVars, perfVars, srvSymbols, selectedKnown, persisted>>
    /\ UNCHANGED <<cfgVars, toasts>>


\* loadConfig: .then(data => ...) (lines 110-127) for the map `data`; the
\* handler does not read the HTTP status.
LoadConfigThen(data) ==
    /\ configFetch = "sent"
    /\ configForm' = FillForm(configForm, data)
    /\ configLoaded' = data
    /\ configFetch' = "settled"
    /\ loadingClass' = HideClass(loadingClass, "config-form")
    /\ loadingInd' = HideInd(loadingInd, "config-form")
    /\ UNCHANGED <<symVars, dashVars, perfVars, lastAlert, netVars, toasts>>

\* loadConfig: .catch (lines 128-132).
LoadConfigCatch ==
    /\ configFetch = "sent"
    /\ configFetch' = "settled"
    /\ loadingClass' = HideClass(loadingClass, "config-form")
    /\ loadingInd' = HideInd(loadingInd, "config-form")
    /\ lastAlert' = Alert("danger", "Failed to load configuration. Please try again.")
    /\ UNCHANGED <<symVars, dashVars, perfVars, netVars, configForm, configLoaded, toasts>>

\* The user clicks a checkbox of the form, or picks an option of the select.
CheckboxClick(name) ==
    /\ name \in ControlNames /\ ControlType(name) = "checkbox"
    /\ configForm' = [configForm EXCEPT ![name] = ~configForm[name]]
    /\ UNCHANGED <<symVars, dashVars, perfVars, uiVars, netVars, configFetch, configLoaded, toasts>>

OptionChoose(value) ==
    /\ ArrIncludes(LogLevelOptions, value)
    /\ configForm' = [configForm EXCEPT !.LOG_LEVEL = value]
    /\ UNCHANGED <<symVars, dashVars, perfVars, uiVars, netVars, configFetch, configLoaded, toasts>>

\* ------------------------------------------------------------------ performance pipeline
\* "Binance client is not initialized"
SubClientNotInitialized ==
    <<"B","i","n","a","n","c","e"," ","c","l","i","e","n","t"," ","i","s"," ","n","o","t",
      " ","i","n","i","t","i","a","l","i","z","e","d">>

\* "API keys"
SubApiKeys ==
    <<"A","P","I"," ","k","e","y","s">>

\* "'NoneType' object has no attribute 'get_historical_klines'"
SubNoneTypeKlines ==
    <<"'","N","o","n","e","T","y","p","e","'"," ","o","b","j","e","c","t"," ","h","a","s",
      " ","n","o"," ","a","t","t","r","i","b","u","t","e"," ","'","g","e","t","_","h","i",
      "s","t","o","r","i","c","a","l","_","k","l","i","n","e","s","'">>

\* "No data for symbol"
ErrNoData ==
    <<"N","o"," ","d","a","t","a"," ","f","o","r"," ","s","y","m","b","o","l">>

\* "Invalid api keys"
ErrApiKeysLower ==
    <<"I","n","v","a","l","i","d"," ","a","p","i"," ","k","e","y","s">>

\* "API key missing"
ErrApiKey ==
    <<"A","P","I"," ","k","e","y"," ","m","i","s","s","i","n","g">>

\* "Binance client is not initialised"
ErrClientInitialised ==
    <<"B","i","n","a","n","c","e"," ","c","l","i","e","n","t"," ","i","s"," ","n","o","t",
      " ","i","n","i","t","i","a","l","i","s","e","d">>

\* "'NoneType' object has no attribute 'get_klines'"
ErrNoneTypeOther ==
    <<"'","N","o","n","e","T","y","p","e","'"," ","o","b","j","e","c","t"," ","h","a","s",
      " ","n","o"," ","a","t","t","r","i","b","u","t","e"," ","'","g","e","t","_","k","l",
      "i","n","e","s","'">>

\* "Failed: 'NoneType' object has no attribute 'get_historical_klines'."
ErrKlinesFailed ==
    <<"F","a","i","l","e","d",":"," ","'","N","o","n","e","T","y","p","e","'"," ","o","b",
      "j","e","c","t"," ","h","a","s"," ","n","o"," ","a","t","t","r","i","b","u","t","e",
      " ","'","g","e","t","_","h","i","s","t","o","r","i","c","a","l","_","k","l","i","n",
      "e","s","'",".">>

\* "Check your API keys!"
ErrCheckApiKeys ==
    <<"C","h","e","c","k"," ","y","o","u","r"," ","A","P","I"," ","k","e","y","s","!">>

\* What /api/performance/{symbol} may answer: the transport fails; a non-2xx
\* status (with a JSON body or not); a 2xx body that is not JSON; a 2xx JSON
\* body {error: text}; a 2xx PerformancePayload.
\* pnl_pct of a trade is held in hundredths (0.02 is 2).
\* `absent` names the fields of current_position that are missing or null.
PositionPayload(position, entry_price, stop_loss, take_profit_levels, absent, trades) ==
    [position |-> position, entry_price |-> entry_price, stop_loss |-> stop_loss,
     take_profit_levels |-> take_profit_levels, absent |-> absent, trades |-> trades]
Payload(position, trades) == PositionPayload(position, 100, 95, <<110>>, {}, trades)
NoPayload == Payload("none", <<>>)

Response(transport, ok, parses, hasError, error, payload) ==
    [transport |-> transport, ok |-> ok, parses |-> parses, hasError |-> hasError,
     error |-> error, payload |-> payload]

AppErrorResponse(e) == Response("ok", TRUE, TRUE, TRUE, e, NoPayload)
PayloadResponse(p) == Response("ok", TRUE, TRUE, FALSE, <<>>, p)

RejectedResponses ==
    { Response("fails", FALSE, FALSE, FALSE, <<>>, NoPayload),
      Response("ok", FALSE, TRUE, FALSE, <<>>, Payload("long", <<2, -1, 0>>)),
      Response("ok", FALSE, TRUE, TRUE, ErrNoData, NoPayload),
      Response("ok", TRUE, FALSE, FALSE, <<>>, NoPayload) }

\* The answers of the runs with overlapping requests.
PerfResponses ==
    RejectedResponses
    \cup { AppErrorResponse(e) : e \in {<<>>, SubClientNotInitialized, ErrNoData} }
    \cup { PayloadResponse(p) : p \in { Payload("none", <<>>),
                                        Payload("long", <<2, -1, 0>>) } }

\* The error texts of the runs that classify application errors: each known
\* substring alone and inside a longer text, and texts that miss one narrowly.
ErrorTexts ==
    { SubClientNotInitialized, SubApiKeys, SubNoneTypeKlines, ErrCheckApiKeys,
      ErrKlinesFailed, ErrNoData, ErrApiKeysLower, ErrApiKey, ErrClientInitialised,
      ErrNoneTypeOther }

PerfRequest(symbol, seq) ==
    [Request("loadPerformanceData", symbol, NoTag) EXCEPT !.seq = seq]

\* The first .then (lines 408-413) passes the parsed body on: the fetch
\* resolved, response.ok holds and response.json() resolved.
ReachesDataWhateverStatus(resp) == resp.transport = "ok" /\ resp.parses

ReachesData(resp) == resp.transport = "ok" /\ resp.ok /\ resp.parses

\* `if (data.error)` (line 417): the field is there and is not the empty string.
DataError(resp) == resp.hasError /\ resp.error # <<>>

\* updatePerformanceStats(data.stats) throws a TypeError when the body has no
\* stats: the body {error: ""} passes line 417 and has none.
\* updateTDIChart(data.tdi_data) throws one when the payload has no tdi_data,
\* after it has destroyed the chart (lines 636-645); updateTradeHistory throws
\* one on a trade without exit_price, after it has emptied the table
\* (lines 749, 769-772). ThrowPoint names the call that throws, if any.
ThrowPointLate(resp) ==
    IF resp.hasError THEN (IF resp.error = <<>> THEN "trades" ELSE "none") ELSE "none"
ThrowPoint(resp) ==
    CASE resp.hasError -> IF resp.error = <<>> THEN "stats" ELSE "none"
      [] "tdi_data" \in resp.payload.absent -> "tdi"
      [] "trade.exit_price" \in resp.payload.absent /\ Len(resp.payload.trades) > 0 -> "trades"
      [] OTHER -> "none"
ThrowsInThen(resp) == ThrowPoint(resp) # "none"

\* The guidance of the error panel (lines 422-428).
AdditionalInfoWithoutApiKeys(error) ==
    IF \/ StrIncludes(error, SubClientNotInitialized)
       \/ StrIncludes(error, SubNoneTypeKlines)
    THEN "connectivity" ELSE "warmup"

AdditionalInfo(error) ==
    IF \/ StrIncludes(error, SubClientNotInitialized)
       \/ StrIncludes(error, SubApiKeys)
       \/ StrIncludes(error, SubNoneTypeKlines)
    THEN "connectivity" ELSE "warmup"

\* updatePriceChart / updateTDIChart: the handle after the call (a chart is
\* named by the issue number of the request whose response it draws).
ChartKeptWhenPresent(old, seq) == IF old # 0 THEN old ELSE seq
ChartAfterUpdate(old, seq) == seq

ChartObject(surface, handle) == [surface |-> surface, id |-> handle]

\* chart.destroy() when the handle is set (lines 577-579, 640-642, 441-448): the
\* Chart objects that cease to exist.
DestroyedOfPrice(surface, handle) ==
    IF handle = 0 THEN {} ELSE {ChartObject("price", handle)}
DestroyedNever(surface, handle) == {}
Destroyed(surface, handle) == IF handle = 0 THEN {} ELSE {ChartObject(surface, handle)}

WinsNonNegative(trades) == Cardinality({i \in 1..Len(trades) : trades[i] >= 0})
\* updateTradeHistory's dashboard figures (lines 781-787): the number of
\* trades, and the share of trades with pnl_pct > 0 as a percentage printed by
\* toFixed(2).
Wins(trades) == Cardinality({i \in 1..Len(trades) : trades[i] > 0})
WinRateOf(trades) ==
    [fixed |-> TRUE,
     hundredths |-> (2 * Wins(trades) * 10000 + Len(trades)) \div (2 * Len(trades))]

\* `!position.<field>` (line 552): the field is missing, null or 0.
FalsyUnlessZero(absent, name, value) == value = 0
Falsy(absent, name, value) == name \in absent \/ value = 0

\* Number.prototype.toFixed(2) of num / den: the nearest hundredth, a tie
\* going away from zero; a division by zero prints as it evaluates.
Abs(x) == IF x < 0 THEN -x ELSE x
Sign(x) == IF x < 0 THEN -1 ELSE 1
ToFixed2(num, den) ==
    IF den = 0
    THEN CASE num > 0 -> Ratio("Infinity", 0)
           [] num < 0 -> Ratio("-Infinity", 0)
           [] OTHER -> Ratio("NaN", 0)
    ELSE Ratio("number",
               Sign(num) * Sign(den) * ((2 * 100 * Abs(num) + Abs(den)) \div (2 * Abs(den))))

\* calculateRiskReward's two branches (lines 561-569).
RiskAsLong(position, entryPrice, stopLoss) == entryPrice - stopLoss
Risk(position, entryPrice, stopLoss) ==
    IF position = "long" THEN entryPrice - stopLoss ELSE stopLoss - entryPrice
Reward(position, entryPrice, takeProfit) ==
    IF position = "long" THEN takeProfit - entryPrice ELSE entryPrice - takeProfit

\* calculateRiskReward (lines 551-570).
CalculateRiskRewardGuarded(p) ==
    IF \/ p.position = "none"
       \/ Falsy(p.absent, "entry_price", p.entry_price)
       \/ Falsy(p.absent, "stop_loss", p.stop_loss)
       \/ "take_profit_levels" \in p.absent
       \/ Len(p.take_profit_levels) = 0
       \/ Risk(p.position, p.entry_price, p.stop_loss) = 0
    THEN Ratio("N/A", 0)
    ELSE ToFixed2(Reward(p.position, p.entry_price, p.take_profit_levels[1]),
                  Risk(p.position, p.entry_price, p.stop_loss))

CalculateRiskReward(p) ==
    IF \/ p.position = "none"
       \/ Falsy(p.absent, "entry_price", p.entry_price)
       \/ Falsy(p.absent, "stop_loss", p.stop_loss)
       \/ "take_profit_levels" \in p.absent
       \/ Len(p.take_profit_levels) = 0
    THEN Ratio("N/A", 0)
    ELSE ToFixed2(Reward(p.position, p.entry_price, p.take_profit_levels[1]),
                  Risk(p.position, p.entry_price, p.stop_loss))

\* updateCurrentPosition (lines 492-548): what the panel shows for a payload.
PositionPanel(payload, symbol, seq) ==
    IF payload.position = "none"
    THEN Panel("no-position", "none", <<>>, symbol, seq)
    ELSE [Panel(payload.position, "none", <<>>, symbol, seq)
             EXCEPT !.rr = CalculateRiskReward(payload)]

RespKind(resp) ==
    CASE ~ReachesData(resp) -> "rejected"
      [] ThrowsInThen(resp) -> "threw"
      [] DataError(resp) -> "app-error"
      [] OTHER -> "payload"

\* loadPerformanceData(symbol) up to its fetch (lines 388-407).
LoadPerformanceData(symbol) ==
    /\ nextSeq <= MaxPerfRequests
    /\ loadingClass' = ShowClass(loadingClass, "performance-stats")
    /\ loadingInd' = ShowInd(loadingInd, "performance-stats")
    /\ symbolStats' = View("cleared", 0)
    /\ currentPosition' = Panel("loading", "none", <<>>, <<>>, 0)
    /\ tradeHistory' = View("loading", 0)
    /\ net' = Send(net, PerfRequest(symbol, nextSeq))
    /\ nextSeq' = nextSeq + 1
    /\ UNCHANGED <<symVars, dashVars, priceChart, tdiChart, liveCharts, lastSettled, lastAlert,
                   srvSymbols, selectedKnown, persisted>>
    /\ UNCHANGED <<cfgVars, toasts>>

\* Change of the chooser to the option s (lines 83-88).
PerformanceSymbolChange(s) ==
    /\ s \in ToSet(performanceSymbol) \cup {<<>>}
    /\ currentSymbol' = s
    /\ IF s # <<>>
       THEN LoadPerformanceData(s)
       ELSE UNCHANGED <<symVars, dashVars, priceChart, tdiChart, symbolStats,
                        currentPosition, tradeHistory, liveCharts, nextSeq, lastSettled,
                        uiVars, netVars, cfgVars, toasts>>

\* Click on refresh-performance (lines 91-95).
RefreshPerformanceClick ==
    /\ currentSymbol # <<>>
    /\ LoadPerformanceData(currentSymbol)
    /\ UNCHANGED currentSymbol

\* The symbol written into the onclick attribute of the Try Again button of
\* an error panel when the panel is built (lines 436, 477).
RetrySymbolActive(panel, active) == active
RetrySymbol(panel, active) == panel.symbol

\* Click on the Try Again button of an error panel (lines 436, 477).
RetryClick ==
    /\ currentPosition.kind \in {"error-app", "error-unexpected"}
    /\ LoadPerformanceData(RetrySymbol(currentPosition, currentSymbol))
    /\ UNCHANGED currentSymbol

\* loadPerformanceData: .then(data => ...) (lines 414-465) for a body that
\* reaches it and does not make it throw.
PerfThen(r, resp) ==
    /\ r \in InFlight /\ r.kind = "loadPerformanceData"
    /\ ReachesData(resp) /\ ~ThrowsInThen(resp)
    /\ loadingClass' = HideClass(loadingClass, "performance-stats")
    /\ loadingInd' = HideInd(loadingInd, "performance-stats")
    /\ net' = Take(net, r)
    /\ lastSettled' = Settled(r.seq, r.body, RespKind(resp))
    /\ IF DataError(resp)
       THEN /\ lastAlert' = AlertQuoting("danger", "Failed to load performance data: ",
                                         resp.error)
            /\ currentPosition' = Panel("error-app", AdditionalInfo(resp.error), resp.error,
                                        r.body, r.seq)
            /\ priceChart' = 0 /\ tdiChart' = 0
            /\ liveCharts' = (liveCharts \ Destroyed("price", priceChart))
                                \ Destroyed("tdi", tdiChart)
            /\ UNCHANGED <<symbolStats, tradeHistory, totalTradesCount, winRate>>
       ELSE /\ symbolStats' = View("stats", r.seq)
            /\ currentPosition' = PositionPanel(resp.payload, r.body, r.seq)
            /\ priceChart' = ChartAfterUpdate(priceChart, r.seq)
            /\ tdiChart' = ChartAfterUpdate(tdiChart, r.seq)
            /\ liveCharts' = (((liveCharts \ Destroyed("price", priceChart))
                                 \cup {ChartObject("price", priceChart')})
                                 \ Destroyed("tdi", tdiChart))
                                 \cup {ChartObject("tdi", tdiChart')}
            /\ IF Len(resp.payload.trades) = 0
               THEN /\ tradeHistory' = View("empty", r.seq)
                    /\ UNCHANGED <<totalTradesCount, winRate>>
               ELSE /\ tradeHistory' = View("rows", r.seq)
                    /\ totalTradesCount' = Len(resp.payload.trades)
                    /\ winRate' = WinRateOf(resp.payload.trades)
            /\ UNCHANGED lastAlert
    /\ UNCHANGED <<symVars, performanceSymbol, activeSymbolsCount, currentSymbol, nextSeq,
                   srvSymbols, selectedKnown, persisted>>
    /\ UNCHANGED <<cfgVars, toasts>>

\* The panel .catch writes into current-position (lines 471-479).
UnexpectedPanelNotWritten(symbol, seq) == Panel("loading", "none", <<>>, <<>>, 0)
UnexpectedPanel(symbol, seq) == Panel("error-unexpected", "warmup", <<>>, symbol, seq)

\* loadPerformanceData: .catch (lines 466-480), entered when the fetch or
\* response.json() rejects, on a non-2xx status (line 410), or when the
\* .then above throws (after its hideLoading, and after the updates that
\* precede the call that throws).
PerfCatch(r, resp) ==
    /\ r \in InFlight /\ r.kind = "loadPerformanceData"
    /\ (~ReachesData(resp) \/ ThrowsInThen(resp))
    /\ loadingClass' = HideClass(loadingClass, "performance-stats")
    /\ loadingInd' = HideInd(loadingInd, "performance-stats")
    /\ lastAlert' = Alert("danger", "Failed to load performance data. Please try again.")
    /\ currentPosition' = UnexpectedPanel(r.body, r.seq)
    /\ net' = Take(net, r)
    /\ lastSettled' = Settled(r.seq, r.body, RespKind(resp))
    /\ LET at == IF ReachesData(resp) THEN ThrowPoint(resp) ELSE "none"
       IN  /\ symbolStats' = IF at \in {"tdi", "trades"} THEN View("stats", r.seq)
                                                             ELSE symbolStats
           /\ priceChart' = IF at \in {"tdi", "trades"} THEN ChartAfterUpdate(priceChart, r.seq)
                                                            ELSE priceChart
           /\ tdiChart' = IF at = "trades" THEN ChartAfterUpdate(tdiChart, r.seq) ELSE tdiChart
           /\ liveCharts' =
                 CASE at = "tdi" -> ((liveCharts \ Destroyed("price", priceChart))
                                        \cup {ChartObject("price", priceChart')})
                                        \ Destroyed("tdi", tdiChart)
                   [] at = "trades" -> (((liveCharts \ Destroyed("price", priceChart))
                                           \cup {ChartObject("price", priceChart')})
                                           \ Destroyed("tdi", tdiChart))
                                           \cup {ChartObject("tdi", tdiChart')}
                   [] OTHER -> liveCharts
           /\ tradeHistory' = IF at = "trades" THEN View("blank", r.seq) ELSE tradeHistory
    /\ UNCHANGED <<symVars, dashVars, currentSymbol, nextSeq, srvSymbols, selectedKnown,
                   persisted>>
    /\ UNCHANGED <<cfgVars, toasts>>

\* ------------------------------------------------------------------ run strategy
\* Click on run-strategy: runStrategy(currentSymbol) up to its fetch
\* (lines 97-101, 790-795).
RunStrategyClick ==
    /\ currentSymbol # <<>>
    /\ BagCardinality(net) < MaxInFlight
    /\ loadingClass' = ShowClass(loadingClass, "run-strategy")
    /\ loadingInd' = ShowInd(loadingInd, "run-strategy")
    /\ net' = Send(net, Request("runStrategy", currentSymbol, NoTag))
    /\ UNCHANGED <<symVars, dashVars, perfVars, lastAlert, srvSymbols, selectedKnown,
                   persisted>>
    /\ UNCHANGED <<cfgVars, toasts>>

\* runStrategy: .then(data => ...) (lines 797-808) for a body with the given
\* `success`, whatever the HTTP status; its success branch calls
\* loadPerformanceData(symbol) up to its fetch.
RunStrategyThen(r, success) ==
    /\ r \in InFlight /\ r.kind = "runStrategy"
    /\ IF success
       THEN /\ nextSeq <= MaxPerfRequests
            /\ lastAlert' = Alert("success", "Strategy executed successfully! Action: ")
            /\ loadingClass' = ShowClass(HideClass(loadingClass, "run-strategy"),
                                         "performance-stats")
            /\ loadingInd' = ShowInd(HideInd(loadingInd, "run-strategy"), "performance-stats")
            /\ symbolStats' = View("cleared", 0)
            /\ currentPosition' = Panel("loading", "none", <<>>, <<>>, 0)
            /\ tradeHistory' = View("loading", 0)
            /\ net' = Send(Take(net, r), PerfRequest(r.body, nextSeq))
            /\ nextSeq' = nextSeq + 1
       ELSE /\ lastAlert' = Alert("danger", "Failed to run strategy: ")
            /\ loadingClass' = HideClass(loadingClass, "run-strategy")
            /\ loadingInd' = HideInd(loadingInd, "run-strategy")
            /\ net' = Take(net, r)
            /\ UNCHANGED <<symbolStats, currentPosition, tradeHistory, nextSeq>>
    /\ UNCHANGED <<symVars, dashVars, priceChart, tdiChart, currentSymbol, liveCharts,
                   lastSettled, srvSymbols, selectedKnown, persisted>>
    /\ UNCHANGED <<cfgVars, toasts>>

\* runStrategy: .catch (lines 810-814), entered when the fetch or
\* response.json() rejects.
RunStrategyCatch(r) ==
    /\ r \in InFlight /\ r.kind = "runStrategy"
    /\ loadingClass' = HideClass(loadingClass, "run-strategy")
    /\ loadingInd' = HideInd(loadingInd, "run-strategy")
    /\ lastAlert' = Alert("danger", "Failed to run strategy. Please try again.")
    /\ net' = Take(net, r)
    /\ UNCHANGED <<symVars, dashVars, perfVars, srvSymbols, selectedKnown, persisted>>
    /\ UNCHANGED <<cfgVars, toasts>>

\* ------------------------------------------------------------------ toasts
\* showAlert's two setTimeout delays, in milliseconds (lines 875-880).
DismissDelay == 5000
FadeDelay == 150

\* A toast of #alert-container. dom: "show" (appended, with class show),
\* "fading" (class show removed) or "gone" (detached from the container);
\* timer: the pending setTimeout, "delay", then "fade", then "none", due in
\* `left` ms. History: age, the time the toast has spent in the container;
\* removals, how often it was detached; closed, by its close button.
Toast(type) ==
    [type |-> type, dom |-> "show", timer |-> "delay", left |-> DismissDelay,
     age |-> 0, removals |-> 0, closed |-> FALSE]

\* alert.classList.remove('show') (line 876), also on a detached toast.
AfterDismiss(t) ==
    [t EXCEPT !.dom = IF @ = "show" THEN "fading" ELSE @,
              !.timer = "fade", !.left = FadeDelay]

\* alert.remove() (line 878): detaches the toast unless it is detached already.
AfterRemoveKept(t) == [t EXCEPT !.timer = "none"]
AfterRemove(t) ==
    [t EXCEPT !.dom = "gone", !.timer = "none",
              !.removals = IF t.dom = "gone" THEN @ ELSE @ + 1]

\* showAlert(message, type) (lines 850-880), called by any handler.
ShowAlert(message, type) ==
    /\ Len(toasts) < MaxToasts
    /\ toasts' = Append(toasts, Toast(type))
    /\ lastAlert' = Alert(type, message)
    /\ UNCHANGED <<symVars, dashVars, perfVars, loadingClass, loadingInd, netVars, cfgVars>>

\* The callback of setTimeout(..., 5000) of toast i (lines 875-880).
DismissTimer(i) ==
    /\ i \in 1..Len(toasts)
    /\ toasts[i].timer = "delay" /\ toasts[i].left = 0
    /\ toasts' = [toasts EXCEPT ![i] = AfterDismiss(@)]
    /\ UNCHANGED <<symVars, dashVars, perfVars, uiVars, netVars, cfgVars>>

\* The callback of setTimeout(..., 150) of toast i (lines 877-879).
RemoveTimer(i) ==
    /\ i \in 1..Len(toasts)
    /\ toasts[i].timer = "fade" /\ toasts[i].left = 0
    /\ toasts' = [toasts EXCEPT ![i] = AfterRemove(@)]
    /\ UNCHANGED <<symVars, dashVars, perfVars, uiVars, netVars, cfgVars>>

\* Click on the close button of toast i (line 868, data-bs-dismiss="alert"):
\* the Bootstrap plugin detaches the toast; its timers stay scheduled.
CloseClick(i) ==
    /\ i \in 1..Len(toasts)
    /\ toasts[i].dom # "gone"
    /\ toasts' = [toasts EXCEPT ![i] = [@ EXCEPT !.dom = "gone", !.removals = @ + 1,
                                                   !.closed = TRUE]]
    /\ UNCHANGED <<symVars, dashVars, perfVars, uiVars, netVars, cfgVars>>

\* d ms pass: no pending timer is due earlier.
Pending == {i \in 1..Len(toasts) : toasts[i].timer # "none"}
TimePasses(d) ==
    /\ d > 0
    /\ Pending # {}
    /\ \A i \in Pending : d <= toasts[i].left
    /\ toasts' = [i \in 1..Len(toasts) |->
                    [toasts[i] EXCEPT !.left = IF i \in Pending THEN @ - d ELSE @,
                                      !.age = IF toasts[i].dom # "gone" THEN @ + d ELSE @]]
    /\ UNCHANGED <<symVars, dashVars, perfVars, uiVars, netVars, cfgVars>>

\* ------------------------------------------------------------------ the symbol manager
Select == \E i \in 1..Len(availableList) : SelectClick(i)
Deselect == \E i \in 1..Len(selectedList) : RemoveClick(i)
Filter == \E q \in Queries : SearchInput(q)
Backend == \E r \in InFlight : ServerHandle(r)
LoadTradingSymbolsSettles ==
    \E r \in InFlight : (\E ok \in BOOLEAN : LoadTradingSymbolsThen(r, ok)) \/ LoadTradingSymbolsCatch(r)
LoadAvailableSymbolsSettles ==
    \E r \in InFlight : (\E ok \in BOOLEAN : LoadAvailableSymbolsThen(r, ok)) \/ LoadAvailableSymbolsCatch(r)
SaveSelectedSymbolsSettles ==
    \E r \in InFlight : (\E ok \in BOOLEAN : SaveSelectedSymbolsThen(r, ok)) \/ SaveSelectedSymbolsCatch(r)
SaveConfigSettles ==
    \E r \in InFlight : (\E ok \in BOOLEAN : SaveConfigThen(r, ok)) \/ SaveConfigCatch(r)

\* Loading and editing: the user edits the two lists, searches, refreshes the
\* universe and saves the configuration (which reloads the selection).
Next ==
    \/ Select
    \/ Deselect
    \/ Filter
    \/ RefreshSymbolsClick
    \/ ConfigSubmit
    \/ Backend
    \/ LoadTradingSymbolsSettles
    \/ LoadAvailableSymbolsSettles
    \/ SaveConfigSettles

Spec == Init /\ [][Next]_vars

\* Editing and persisting: the user edits the two lists and saves the
\* selection, any number of saves overlapping.
NextPersist ==
    \/ Select
    \/ Deselect
    \/ SaveSymbolsClick
    \/ Backend
    \/ LoadTradingSymbolsSettles
    \/ LoadAvailableSymbolsSettles
    \/ SaveSelectedSymbolsSettles

SpecPersist == Init /\ [][NextPersist]_vars

\* Persisting and reloading, one fetch after the other: the user edits the two
\* lists at any time, and saves the selection or the configuration (which
\* reloads the selection) only when no fetch is in flight.
Quiet == net = EmptyBag
SaveSymbolsClickWhenQuiet == Quiet /\ SaveSymbolsClick
ConfigSubmitWhenQuiet == Quiet /\ ConfigSubmit

NextRoundTrip ==
    \/ Select
    \/ Deselect
    \/ SaveSymbolsClickWhenQuiet
    \/ ConfigSubmitWhenQuiet
    \/ Backend
    \/ LoadTradingSymbolsSettles
    \/ LoadAvailableSymbolsSettles
    \/ SaveSelectedSymbolsSettles
    \/ SaveConfigSettles

SpecRoundTrip == Init /\ [][NextRoundTrip]_vars

\* The performance section: the page loads its symbols, then the user picks
\* symbols in the chooser, refreshes and retries, any number of performance
\* requests overlapping.
ChooserChange == \E s \in ToSet(performanceSymbol) \cup {<<>>} : PerformanceSymbolChange(s)
PerfLoads == \E r \in InFlight, resp \in PerfResponses : PerfThen(r, resp)
PerfFails == \E r \in InFlight, resp \in PerfResponses : PerfCatch(r, resp)

NextPerf ==
    \/ Backend
    \/ LoadTradingSymbolsSettles
    \/ LoadAvailableSymbolsSettles
    \/ ChooserChange
    \/ RefreshPerformanceClick
    \/ RetryClick
    \/ PerfLoads
    \/ PerfFails

SpecPerf == Init /\ [][NextPerf]_vars

\* The same runs when every performance request that was issued eventually
\* resolves or rejects and the event loop then runs its handler.
PerfSettlesEventually == PerfLoads \/ PerfFails
SpecPerfLive == Init /\ [][NextPerf]_vars /\ WF_vars(PerfSettlesEventually)

\* Classifying application errors: the same page, one performance request at
\* a time, each answered with {error: text} for a text of ErrorTexts.
NoPerfInFlight == ~KindInFlight(net, "loadPerformanceData")
ChooserChangeWhenIdle == NoPerfInFlight /\ ChooserChange
RetryClickWhenIdle == NoPerfInFlight /\ RetryClick
PerfAnswersError ==
    \E r \in InFlight, e \in ErrorTexts \cup {<<>>} :
        PerfThen(r, AppErrorResponse(e)) \/ PerfCatch(r, AppErrorResponse(e))

NextClassify ==
    \/ Backend
    \/ LoadTradingSymbolsSettles
    \/ LoadAvailableSymbolsSettles
    \/ ChooserChangeWhenIdle
    \/ RetryClickWhenIdle
    \/ PerfAnswersError

SpecClassify == Init /\ [][NextClassify]_vars

\* The configuration form: loadConfig's fetch is answered, the user edits the
\* form and submits it while nothing else is in flight; a successful save
\* reloads the symbols.
\* The options the user picks in these runs.
OptionsPicked == {StrDebug, StrError}

LoadConfigSettles == (\E data \in ConfigStored : LoadConfigThen(data)) \/ LoadConfigCatch
EditConfig ==
    \/ \E name \in ControlNames : CheckboxClick(name)
    \/ \E value \in OptionsPicked : OptionChoose(value)

NextConfig ==
    \/ LoadConfigSettles
    \/ EditConfig
    \/ ConfigSubmitWhenQuiet
    \/ Backend
    \/ SaveConfigSettles
    \/ LoadTradingSymbolsSettles
    \/ LoadAvailableSymbolsSettles

SpecConfig == Init /\ [][NextConfig]_vars

\* The search box: the page has loaded a selection of at most two of the
\* three symbols of Universe3 and the universe itself; the user selects,
\* deselects and types queries.
Selections3 ==
    {<<>>} \cup {<<Universe3[i]>> : i \in 1..3}
           \cup {<<Universe3[p[1]], Universe3[p[2]]>> :
                    p \in {q \in (1..3) \X (1..3) : q[1] # q[2]}}

InitFilter ==
    /\ priceChart = 0 /\ tdiChart = 0
    /\ availableSymbols = Universe3
    /\ selectedSymbols \in Selections3
    /\ currentSymbol = <<>>
    /\ availableList = RenderAvailable(FilterSelectedOut(availableSymbols, selectedSymbols))
    /\ selectedList = selectedSymbols
    /\ symbolSearch = <<>>
    /\ performanceSymbol = selectedSymbols
    /\ activeSymbolsCount = CountAfterRenderSelected(selectedSymbols, 0)
    /\ totalTradesCount = 0 /\ winRate = WinRateZero
    /\ symbolStats = View("initial", 0) /\ currentPosition = NoPanel
    /\ tradeHistory = View("initial", 0)
    /\ liveCharts = {}
    /\ loadingClass = {"config-form"} /\ loadingInd = IndicatorsAtLoad
    /\ lastAlert = NoAlert
    /\ net = EmptyBag
    /\ srvSymbols = selectedSymbols
    /\ selectedKnown = TRUE
    /\ persisted = NoTag
    /\ nextSeq = 1
    /\ lastSettled = Settled(0, <<>>, "none")
    /\ configForm = ConfigFormInitial
    /\ configFetch = "sent"
    /\ configLoaded = <<>>
    /\ toasts = <<>>

FilterTyped == \E q \in FilterQueries : SearchInput(q)

NextFilter ==
    \/ Select
    \/ Deselect
    \/ FilterTyped

SpecFilter == InitFilter /\ [][NextFilter]_vars

\* Rendering a payload: the same page, one performance request at a time, each
\* answered with a payload: a position with whole-number prices around an
\* entry of 100 and no trades, or no position and a list of trades (pnl_pct in
\* hundredths).
StopLosses == {95, 100, 105}
TakeProfits == { <<>>, <<90>>, <<95, 80>>, <<100>>, <<110, 120>>, <<115>> }
AbsentFields == { {}, {"entry_price"}, {"stop_loss"}, {"take_profit_levels"} }
TradeLists == { <<>>, <<2, -1, 0>>, <<0>>, <<1>>, <<-3, -1>>, <<1, 2, 3, -1>> }
RenderedPayloads ==
    { PositionPayload(position, 100, s, t, a, <<>>) :
          position \in {"none", "long", "short"}, s \in StopLosses, t \in TakeProfits,
          a \in AbsentFields }
    \cup { Payload("none", trades) : trades \in TradeLists }

PerfAnswersPayload ==
    \E r \in InFlight, p \in RenderedPayloads : PerfThen(r, PayloadResponse(p))

NextRender ==
    \/ Backend
    \/ LoadTradingSymbolsSettles
    \/ LoadAvailableSymbolsSettles
    \/ ChooserChangeWhenIdle
    \/ PerfAnswersPayload

SpecRender == Init /\ [][NextRender]_vars

\* The toasts: handlers call showAlert at any time, the user closes toasts,
\* time passes up to the next timer that is due, or by half the dismiss
\* delay, and the event loop runs the callback of every timer that is due.
ToastTypes == {"success", "danger"}
ToastRaised == \E type \in ToastTypes : ShowAlert("message", type)
DismissTimerFires == \E i \in 1..MaxToasts : DismissTimer(i)
RemoveTimerFires == \E i \in 1..MaxToasts : RemoveTimer(i)
ToastClosed == \E i \in 1..MaxToasts : CloseClick(i)
Clock ==
    \E d \in {toasts[i].left : i \in Pending} \cup {DismissDelay \div 2} : TimePasses(d)

NextToast ==
    \/ ToastRaised
    \/ ToastClosed
    \/ Clock
    \/ DismissTimerFires
    \/ RemoveTimerFires

SpecToast ==
    /\ Init /\ [][NextToast]_vars
    /\ WF_vars(Clock)
    /\ \A i \in 1..MaxToasts : WF_vars(DismissTimer(i)) /\ WF_vars(RemoveTimer(i))

\* Failures: the whole page without edits of the lists or of the form; every
\* backend call is answered with success or with any of its failures, the
\* performance request and loadConfig's fetch with failures only; requests
\* overlap only with requests of their own kind.
RecoverResponses ==
    { Response("fails", FALSE, FALSE, FALSE, <<>>, NoPayload),
      Response("ok", FALSE, TRUE, FALSE, <<>>, NoPayload),
      AppErrorResponse(<<>>), AppErrorResponse(ErrNoData) }
RunStrategySettles ==
    \E r \in InFlight : (\E success \in BOOLEAN : RunStrategyThen(r, success)) \/ RunStrategyCatch(r)
PerfSettles == \E r \in InFlight, resp \in RecoverResponses : PerfThen(r, resp) \/ PerfCatch(r, resp)

Alone(kind) == \A r \in InFlight : r.kind = kind
RefreshSymbolsClickAlone == Alone("loadAvailableSymbols") /\ RefreshSymbolsClick
SaveSymbolsClickAlone == Alone("saveSelectedSymbols") /\ SaveSymbolsClick
ConfigSubmitAlone == Alone("saveConfig") /\ ConfigSubmit
RunStrategyClickAlone == Alone("runStrategy") /\ RunStrategyClick
ChooserChangeWhenQuiet == Quiet /\ ChooserChange
RetryClickWhenQuiet == Quiet /\ RetryClick

NextRecover ==
    \/ Backend
    \/ LoadConfigCatch
    \/ LoadTradingSymbolsSettles
    \/ LoadAvailableSymbolsSettles
    \/ SaveSelectedSymbolsSettles
    \/ SaveConfigSettles
    \/ RefreshSymbolsClickAlone
    \/ SaveSymbolsClickAlone
    \/ ConfigSubmitAlone
    \/ ChooserChangeWhenQuiet
    \/ RetryClickWhenQuiet
    \/ RunStrategyClickAlone
    \/ RunStrategySettles
    \/ PerfSettles

SpecRecover == Init /\ [][NextRecover]_vars

\* Failing responses of every kind: the same page, one performance request
\* at a time, answered with a payload, an application error, a rejection, or
\* a body that makes the response handler throw at its first, fourth or last
\* update.
PartialResponses ==
    RejectedResponses
    \cup { AppErrorResponse(<<>>), AppErrorResponse(ErrNoData),
           PayloadResponse(Payload("long", <<2, -1, 0>>)),
           PayloadResponse(PositionPayload("none", 100, 95, <<110>>, {"tdi_data"}, <<>>)),
           PayloadResponse(PositionPayload("none", 100, 95, <<110>>, {"trade.exit_price"},
                                           <<2>>)) }
PerfAnswersAnyFailure ==
    \E r \in InFlight, resp \in PartialResponses : PerfThen(r, resp) \/ PerfCatch(r, resp)

NextPartial ==
    \/ Backend
    \/ LoadTradingSymbolsSettles
    \/ LoadAvailableSymbolsSettles
    \/ ChooserChangeWhenIdle
    \/ RetryClickWhenIdle
    \/ PerfAnswersAnyFailure

SpecPartial == Init /\ [][NextPartial]_vars

\* A stale current symbol: the user chooses a symbol, deselects symbols and
\* saves while nothing is in flight, then refreshes the performance section
\* or runs the strategy; performance requests are answered with failures.
RefreshPerformanceWhenQuiet == Quiet /\ RefreshPerformanceClick

NextStale ==
    \/ Backend
    \/ LoadTradingSymbolsSettles
    \/ LoadAvailableSymbolsSettles
    \/ Deselect
    \/ SaveSymbolsClickWhenQuiet
    \/ SaveSelectedSymbolsSettles
    \/ ChooserChangeWhenQuiet
    \/ RefreshPerformanceWhenQuiet
    \/ RunStrategyClickAlone
    \/ RunStrategySettles
    \/ PerfSettles

SpecStale == Init /\ [][NextStale]_vars

\* The dashboard figures: the user picks a symbol, the backend answers with
\* lists of trades, and the user saves the selection or the configuration
\* when no fetch is in flight.
TradesPayloads == { Payload("none", trades) : trades \in TradeLists }
PerfAnswersTrades ==
    \E r \in InFlight, p \in TradesPayloads : PerfThen(r, PayloadResponse(p))

NextDashboard ==
    \/ Backend
    \/ LoadTradingSymbolsSettles
    \/ LoadAvailableSymbolsSettles
    \/ ChooserChangeWhenQuiet
    \/ PerfAnswersTrades
    \/ SaveSymbolsClickWhenQuiet
    \/ SaveSelectedSymbolsSettles
    \/ ConfigSubmitWhenQuiet
    \/ SaveConfigSettles

SpecDashboard == Init /\ [][NextDashboard]_vars

\* ================================================================== claims
Disjoint == ToSet(availableList) \cap ToSet(selectedSymbols) = {}

C2_DisjointAtEveryYield == Disjoint

\* C3 (as claimed): a loadAvailableSymbols fetch is issued only when a
\* /api/trading_symbols response has populated selectedSymbols and no
\* loadTradingSymbols fetch is in flight.
IssuesLoadAvailable ==
    LET q == Request("loadAvailableSymbols", NoData, NoTag)
    IN CopiesIn(q, net') > CopiesIn(q, net)

C3_LoadAvailableAfterSelectedKnown ==
    [][IssuesLoadAvailable =>
         (selectedKnown' /\ ~KindInFlight(net', "loadTradingSymbols"))]_vars

\* C5 (as claimed): a successful save sets the chooser to the collection that
\* request sent to the backend.
C5_ChooserIsWhatWasSent ==
    [][\A r \in InFlight, ok \in BOOLEAN :
         (SaveSelectedSymbolsThen(r, ok) /\ r.success) => performanceSymbol' = r.body]_vars

\* C6: no step of a save that fails (its issue, its answer with success false,
\* its rejection) changes selectedSymbols, availableSymbols or the chooser,
\* and the failure raises a danger toast.
SaveFails(r) ==
    \/ SaveSelectedSymbolsCatch(r)
    \/ (~r.success /\ \E ok \in BOOLEAN : SaveSelectedSymbolsThen(r, ok))

C6_FailedSaveChangesNothing ==
    [][ /\ SaveSymbolsClick =>
             UNCHANGED <<selectedSymbols, availableSymbols, performanceSymbol>>
        /\ \A r \in InFlight : SaveFails(r) =>
             /\ UNCHANGED <<selectedSymbols, availableSymbols, performanceSymbol>>
             /\ lastAlert'.type = "danger" ]_vars

\* C6 witness: a save was rejected while the chooser and the selection differ.
C6_Witness ==
    /\ lastAlert = AlertSaveRejected
    /\ selectedSymbols # <<>> /\ performanceSymbol # selectedSymbols
    /\ ~KindInFlight(net, "saveSelectedSymbols")

\* C7: when a save that ran alone has settled with success and a
\* loadTradingSymbols issued after that is answered, with no save issued in
\* between, selectedSymbols becomes the collection that save sent.
C7_RoundTrip ==
    [][\A r \in InFlight, ok \in BOOLEAN :
         ( /\ LoadTradingSymbolsThen(r, ok)
           /\ r.tag.st = "settled"
           /\ persisted = r.tag )
         => selectedSymbols' = r.tag.val]_vars

\* C7 witness: the selection <<ETHUSDT, BTCUSDT>> (not a stored selection at
\* page load) was saved, the configuration saved after it, and the reload has answered (its loadAvailableSymbols is in
\* flight) with that selection.
C7_Witness ==
    /\ persisted = Tag("settled", <<ETHUSDT, BTCUSDT>>)
    /\ lastAlert = Alert("success", "Configuration saved successfully!")
    /\ KindInFlight(net, "loadAvailableSymbols")
    /\ selectedSymbols = <<ETHUSDT, BTCUSDT>>

\* C8 (as claimed): a response with a non-2xx status is handled as a failure:
\* a danger toast, and no success-path update of the symbol state.
Non2xxAnswer ==
    \E r \in InFlight :
        \/ LoadTradingSymbolsThen(r, FALSE)
        \/ LoadAvailableSymbolsThen(r, FALSE)
        \/ SaveConfigThen(r, FALSE)

C8_Non2xxIsFailure ==
    [][Non2xxAnswer =>
         /\ lastAlert'.type = "danger"
         /\ UNCHANGED <<selectedSymbols, availableSymbols, performanceSymbol>>]_vars

\* C4: the views show the response that settled last, whatever symbol is
\* current: when the request that settled last was answered with a payload,
\* both charts are that response's, and the stats, the position panel and the
\* trade history are that response's unless a later request has cleared them.
C4_LastSettledWins ==
    lastSettled.kind = "payload" =>
        /\ priceChart = lastSettled.seq /\ tdiChart = lastSettled.seq
        /\ \/ currentPosition.kind = "loading"
           \/ /\ currentPosition.seq = lastSettled.seq
              /\ currentPosition.symbol = lastSettled.symbol
        /\ symbolStats \in {View("cleared", 0), View("stats", lastSettled.seq)}
        /\ tradeHistory.kind = "loading" \/ tradeHistory.seq = lastSettled.seq

\* C4 witness: request 1 (BTCUSDT) was in flight when request 2 (ETHUSDT) was
\* issued; request 2 was answered first with three trades (the dashboard still
\* counts them), then request 1 with no trades: BTCUSDT's data is shown while
\* the current symbol is ETHUSDT.
C4_Witness ==
    /\ lastSettled = Settled(1, BTCUSDT, "payload")
    /\ nextSeq = 3 /\ NoPerfInFlight
    /\ currentSymbol = ETHUSDT
    /\ currentPosition = Panel("no-position", "none", <<>>, BTCUSDT, 1)
    /\ tradeHistory = View("empty", 1) /\ totalTradesCount = 3
    /\ priceChart = 1 /\ tdiChart = 1

\* C9: a performance request ends in Errored (an error panel) when the
\* transport fails, the status is not 2xx or the parsed body has an error
\* field, and in Loaded (stats, position and trade history of its response)
\* when the 2xx body parses and has no error field.
ErroredView == currentPosition.kind \in {"error-app", "error-unexpected"}

LoadedView(r) ==
    /\ currentPosition.kind \in {"no-position", "long", "short"}
    /\ currentPosition.seq = r.seq
    /\ symbolStats = View("stats", r.seq)
    /\ tradeHistory \in {View("empty", r.seq), View("rows", r.seq)}

C9_ErroredOrLoaded ==
    [][\A r \in InFlight, resp \in PerfResponses :
         (PerfThen(r, resp) \/ PerfCatch(r, resp)) =>
            /\ (resp.transport = "fails" \/ ~resp.ok \/ (resp.parses /\ resp.hasError))
                  => ErroredView'
            /\ (resp.transport = "ok" /\ resp.ok /\ resp.parses /\ ~resp.hasError)
                  => LoadedView(r)']_vars

\* C9 witness: a request was answered with {error: text} and the error panel
\* is shown, the charts gone.
C9_Witness ==
    /\ lastSettled.kind = "app-error" /\ currentPosition.kind = "error-app"
    /\ priceChart = 0 /\ nextSeq = 3

\* C10: an error panel gives the connectivity guidance exactly when the error
\* text contains "Binance client is not initialized", "API keys" or the
\* NoneType 'get_historical_klines' message, and the warm-up guidance for
\* every other text.
Contains(text, sub) ==
    \E i \in 0..Len(text), j \in 0..Len(text) : i <= j /\ SubSeq(text, i + 1, j) = sub

C10_TwoClasses ==
    ErroredView =>
        /\ currentPosition.info \in {"connectivity", "warmup"}
        /\ currentPosition.info = "connectivity" <=>
              \/ Contains(currentPosition.text, SubClientNotInitialized)
              \/ Contains(currentPosition.text, SubApiKeys)
              \/ Contains(currentPosition.text, SubNoneTypeKlines)

\* C10 witness: the text "Check your API keys!" got the connectivity guidance.
C10_Witness ==
    currentPosition = Panel("error-app", "connectivity", ErrCheckApiKeys, ETHUSDT, 1)

\* C11: a refresh that settles in Loaded leaves the stats, the position panel,
\* both chart handles and the trade-history table showing that response (a
\* refresh that ran alone included), and the Chart objects alive are the two
\* built from it: nothing drawn from an earlier payload remains.
C11_LoadedShowsOnlyThisPayload ==
    [][\A r \in InFlight, resp \in PerfResponses :
         (PerfThen(r, resp) /\ RespKind(resp) = "payload") =>
            /\ symbolStats' = View("stats", r.seq)
            /\ currentPosition'.seq = r.seq /\ currentPosition'.symbol = r.body
            /\ currentPosition'.kind =
                  (IF resp.payload.position = "none" THEN "no-position"
                   ELSE resp.payload.position)
            /\ priceChart' = r.seq /\ tdiChart' = r.seq
            /\ liveCharts' = {ChartObject("price", r.seq), ChartObject("tdi", r.seq)}
            /\ tradeHistory'.seq = r.seq
            /\ tradeHistory'.kind = "empty" <=> resp.payload.trades = <<>>]_vars

\* C11 witness: request 1 was answered with the payload that has three trades
\* and, after that, request 2 was issued and answered with the payload that has
\* none: every view and both charts are request 2's.
C11_Witness ==
    /\ lastSettled = Settled(2, ETHUSDT, "payload") /\ nextSeq = 3 /\ NoPerfInFlight
    /\ symbolStats = View("stats", 2) /\ tradeHistory = View("empty", 2)
    /\ currentPosition = Panel("no-position", "none", <<>>, ETHUSDT, 2)
    /\ liveCharts = {ChartObject("price", 2), ChartObject("tdi", 2)}
    /\ totalTradesCount = 3

\* C12 (as claimed): every transition to Loaded writes the dashboard's total
\* trade count as the length of the payload's trade list, whatever its length,
\* and the dashboard's win rate as the rate recomputed from that list.
C12_DashboardRepublished ==
    [][\A r \in InFlight, resp \in PerfResponses :
         (PerfThen(r, resp) /\ RespKind(resp) = "payload") =>
            /\ totalTradesCount' = Len(resp.payload.trades)
            /\ resp.payload.trades # <<>> => winRate' = WinRateOf(resp.payload.trades)]_vars

\* C13 (as claimed): when a loadTradingSymbols response, a select or a deselect
\* has been handled, the active-symbols count shown is the length of
\* selectedSymbols.
C13_ActiveCountIsSelectedSize ==
    [][(Select \/ Deselect \/ \E r \in InFlight, ok \in BOOLEAN : LoadTradingSymbolsThen(r, ok))
         => activeSymbolsCount' = Len(selectedSymbols')]_vars

\* The saveConfig requests a step issues, and the keys of a list of entries.
IssuedSaveConfig ==
    {r \in BagToSet(net') :
        r.kind = "saveConfig" /\ r.stage = "sent" /\ CopiesIn(r, net') > CopiesIn(r, net)}
Keys(entries) == {entries[i][1] : i \in 1..Len(entries)}

\* C14 (as claimed): every key of the map a config load returned is a key of
\* the data the next config save transmits.
C14_NoKeyLost ==
    [][\A r \in IssuedSaveConfig : Keys(configLoaded) \subseteq Keys(r.body)]_vars

\* C15: the data of every config save has, for each checkbox of the form,
\* exactly one entry, with the value "True" when the checkbox is checked and
\* "False" when it is not.
CheckboxNames == {name \in ControlNames : ControlType(name) = "checkbox"}
ValuesOf(entries, name) ==
    SelectSeq(entries, LAMBDA e : e[1] = name)

C15_FlagsAlwaysExplicit ==
    [][\A r \in IssuedSaveConfig : \A name \in CheckboxNames :
         ValuesOf(r.body, name) =
            << <<name, IF configForm[name] THEN StrTrue ELSE StrFalse>> >>]_vars

\* C15 witness: a save is in flight that was submitted with USE_TESTNET
\* unchecked and BACKTEST_MODE checked, after the load had checked USE_TESTNET.
C15_Witness ==
    /\ configLoaded # <<>> /\ ValuesOf(configLoaded, "USE_TESTNET") = << <<"USE_TESTNET", StrTrue>> >>
    /\ ~configForm.USE_TESTNET /\ configForm.BACKTEST_MODE
    /\ \E r \in InFlight :
         /\ r.kind = "saveConfig"
         /\ ValuesOf(r.body, "USE_TESTNET") = << <<"USE_TESTNET", StrFalse>> >>
         /\ ValuesOf(r.body, "BACKTEST_MODE") = << <<"BACKTEST_MODE", StrTrue>> >>

\* C16 (as claimed): after a config load, for every loaded entry the form has
\* a control for, a checkbox is checked exactly when the value is "True" in any
\* letter case, and any other control holds the loaded string.
SameLetter(c, d) ==
    \/ c = d
    \/ \E k \in 1..Len(UpperLetters) : {c, d} = {UpperLetters[k], LowerLetters[k]}
EqualsIgnoringCase(a, b) ==
    Len(a) = Len(b) /\ \A i \in 1..Len(a) : SameLetter(a[i], b[i])

C16_LoadFillsForm ==
    [][\A data \in ConfigStored : LoadConfigThen(data) =>
         \A i \in 1..Len(data) :
            LET key == data[i][1]
                value == data[i][2]
            IN key \in ControlNames =>
                 IF key \in CheckboxNames
                 THEN configForm'[key] <=> EqualsIgnoringCase(value, StrTrue)
                 ELSE configForm'[key] = value]_vars

\* C17: selecting a symbol twice in succession gives the selectedSymbols that
\* selecting it once gives, and the click on an entry whose symbol is selected
\* already does not change selectedSymbols.
C17_SelectIdempotent ==
    /\ \A x \in ToSet(Universe) :
         SelectedAfterSelect(SelectedAfterSelect(selectedSymbols, x), x)
            = SelectedAfterSelect(selectedSymbols, x)
    /\ \A i \in 1..Len(availableList) :
         ArrIncludes(selectedSymbols, availableList[i]) =>
            ~ENABLED (SelectClick(i) /\ selectedSymbols' # selectedSymbols)

\* C17 witness: ETHUSDT is the selection and has an entry in the available
\* list, so it can be selected once more.
C17_Witness ==
    /\ selectedSymbols = <<ETHUSDT>> /\ ArrIncludes(availableList, ETHUSDT)
    /\ Len(availableList) = 2

\* C18 (as claimed): the click on any entry of the available list leaves its
\* symbol in selectedSymbols, removes that entry and no other from the list,
\* issues no fetch and leaves availableSymbols as it is.
SelectMoves(i) ==
    /\ SelectClick(i)
    /\ ArrIncludes(selectedSymbols', availableList[i])
    /\ availableList' = SubSeq(availableList, 1, i - 1)
                           \o SubSeq(availableList, i + 1, Len(availableList))
    /\ UNCHANGED <<availableSymbols, net>>

C19_SelectOfSelectedIsSilent ==
    \A i \in 1..Len(availableList) :
        ArrIncludes(selectedSymbols, availableList[i]) =>
            ~ENABLED (SelectClick(i)
                         /\ ~UNCHANGED <<selectedSymbols, availableList, selectedList,
                                         lastAlert>>)

\* C19 witness: both symbols are selected and both have an entry in the
\* available list; no toast has been raised.
C19_Witness ==
    /\ selectedSymbols = <<BTCUSDT, ETHUSDT>> /\ availableList = Universe
    /\ lastAlert = NoAlert

\* C20: after the remove button of a selected symbol x was clicked, x is not
\* in selectedSymbols, occurs exactly once in availableSymbols, and has an
\* entry in the available list exactly when x contains the upper-cased search
\* query.
C20_DeselectReturnsSymbol ==
    [][\A i \in 1..Len(selectedList) : RemoveClick(i) =>
         LET x == selectedList[i] IN
         /\ ~ArrIncludes(selectedSymbols', x)
         /\ Cardinality({j \in 1..Len(availableSymbols') : availableSymbols'[j] = x}) = 1
         /\ ArrIncludes(availableList', x) <=> Contains(x, ToUpperCase(symbolSearch))]_vars

\* C20 witness: ETHUSDT was deselected while the search query was "bt" and
\* availableSymbols was still empty: it is the only available symbol, and the
\* list shows nothing.
C20_Witness ==
    /\ selectedKnown /\ selectedSymbols = <<>> /\ availableSymbols = <<ETHUSDT>>
    /\ symbolSearch = <<"b","t">> /\ availableList = <<>>

\* C21: typing a query renders, in the order of availableSymbols, exactly the
\* symbols of availableSymbols that are not selected and contain the
\* upper-cased query at some position, and changes neither selectedSymbols nor
\* availableSymbols.
C21_FilterRendersMatches ==
    [][\A q \in FilterQueries : SearchInput(q) =>
         /\ availableList' =
               SelectSeq(availableSymbols, LAMBDA x :
                   x \notin ToSet(selectedSymbols) /\ Contains(x, ToUpperCase(q)))
         /\ UNCHANGED <<selectedSymbols, availableSymbols>>]_vars

\* C21 witness: with the universe [BTCUSDT, ETHUSDT, BNBUSDT] and ETHUSDT
\* selected, the query "BT" has rendered [BTCUSDT].
C21_Witness ==
    /\ availableSymbols = Universe3 /\ selectedSymbols = <<ETHUSDT>>
    /\ symbolSearch = <<"B","T">> /\ availableList = <<BTCUSDT>>

\* C22: on the price surface and on the oscillator surface at most one chart
\* is live at any time, and a live chart is the one its handle refers to: a
\* refresh has disposed of the chart constructed before it.
C22_OneLiveChartPerSurface ==
    /\ \A s \in {"price", "tdi"} : Cardinality({c \in liveCharts : c.surface = s}) <= 1
    /\ liveCharts \subseteq {ChartObject("price", priceChart), ChartObject("tdi", tdiChart)}

\* C22 witness: a payload with three trades was rendered, charts included, and
\* a later payload without trades has replaced both charts.
C22_Witness ==
    /\ totalTradesCount = 3 /\ tradeHistory.kind = "empty"
    /\ priceChart = tradeHistory.seq /\ tdiChart = tradeHistory.seq
    /\ liveCharts = {ChartObject("price", priceChart), ChartObject("tdi", tdiChart)}

\* C23: for an open position with entry price E, stop loss S # E and first
\* take-profit level T, the panel shows, to the nearest hundredth, the ratio
\* (T - E)/(E - S) for a long position and (E - T)/(S - E) for a short one;
\* long 100/95/[110] and short 100/105/[90] both show 2.00.
Nearest(h, num, den) == 2 * Abs(100 * num - h * den) <= Abs(den)
OpenAndComplete(p) ==
    /\ p.position # "none" /\ p.absent = {}
    /\ p.entry_price # 0 /\ p.stop_loss # 0 /\ Len(p.take_profit_levels) > 0
C23_RatioOfPosition ==
    [][\A r \in InFlight, p \in RenderedPayloads :
         (PerfThen(r, PayloadResponse(p)) /\ OpenAndComplete(p) /\ p.entry_price # p.stop_loss) =>
            LET E == p.entry_price
                S == p.stop_loss
                T == p.take_profit_levels[1]
            IN /\ currentPosition'.rr.kind = "number"
               /\ p.position = "long" => Nearest(currentPosition'.rr.hundredths, T - E, E - S)
               /\ p.position = "short" => Nearest(currentPosition'.rr.hundredths, E - T, S - E)]_vars

\* C23 witness: the panel of a short position 100/105/[90] shows 2.00.
C23_Witness ==
    /\ currentPosition.kind = "short" /\ currentPosition.rr = Ratio("number", 200)
    /\ lastSettled.kind = "payload"

\* C24: the risk/reward is not available whenever the entry price, the stop
\* loss or the take-profit levels are absent, the take-profit sequence is
\* empty, or there is no open position: calculateRiskReward returns 'N/A', and
\* the panel shows that text, or no ratio at all when there is no position.
C24_NotAvailable ==
    [][\A r \in InFlight, p \in RenderedPayloads :
         (/\ PerfThen(r, PayloadResponse(p))
          /\ \/ p.absent # {}
             \/ Len(p.take_profit_levels) = 0
             \/ p.position = "none") =>
            /\ CalculateRiskReward(p) = Ratio("N/A", 0)
            /\ currentPosition'.rr = IF p.position = "none" THEN NoRatio ELSE Ratio("N/A", 0)]_vars

\* C24 witness: the panel of a long position shows N/A.
C24_Witness ==
    /\ currentPosition.kind = "long" /\ currentPosition.rr = Ratio("N/A", 0)
    /\ lastSettled.kind = "payload"

\* C25: for a non-empty trade list the dashboard shows the number of trades
\* and, to the nearest hundredth of a percent, the share of trades with
\* pnl_pct strictly greater than 0.
StrictWins(trades) == Len(SelectSeq(trades, LAMBDA t : t > 0))
C25_WinRateCountsStrictWins ==
    [][\A r \in InFlight, p \in RenderedPayloads :
         (PerfThen(r, PayloadResponse(p)) /\ Len(p.trades) > 0) =>
            /\ totalTradesCount' = Len(p.trades)
            /\ winRate'.fixed
            /\ Nearest(winRate'.hundredths, 100 * StrictWins(p.trades), Len(p.trades))]_vars

\* C25 witness: the trades [0.02, -0.01, 0.00] have been rendered and the
\* dashboard shows 33.33%.
C25_Witness ==
    /\ totalTradesCount = 3 /\ winRate = [fixed |-> TRUE, hundredths |-> 3333]
    /\ tradeHistory.kind = "rows"

\* C26: loading indicators are idempotent per region: no region ever holds
\* more than one indicator, showing a region leaves exactly one in it however
\* often it is shown, and hiding a region that is hidden changes nothing.
C26_LoadingIdempotent ==
    \A id \in Regions :
        /\ loadingInd[id] <= 1
        /\ ShowInd(loadingInd, id)[id] = 1
        /\ ShowInd(ShowInd(loadingInd, id), id) = ShowInd(loadingInd, id)
        /\ ShowClass(ShowClass(loadingClass, id), id) = ShowClass(loadingClass, id)
        /\ (id \notin loadingClass /\ loadingInd[id] = 0) =>
              /\ HideClass(loadingClass, id) = loadingClass
              /\ HideInd(loadingInd, id) = loadingInd
        /\ HideInd(HideInd(ShowInd(loadingInd, id), id), id) = HideInd(ShowInd(loadingInd, id), id)

\* C26 witness: the universe has been requested twice, so that
\* 'available-symbols' was shown while shown, and it holds one indicator.
C26_Witness ==
    /\ \E r \in InFlight : r.kind = "loadAvailableSymbols" /\ CopiesIn(r, net) >= 2
    /\ "available-symbols" \in loadingClass
    /\ loadingInd["available-symbols"] = 1

\* C27: every toast that is shown is eventually detached from the container,
\* is never detached twice, and, unless the user has closed it, is detached
\* by its own timers when it has been shown for the dismiss delay plus the
\* fade-out, whatever happens to the other toasts.
C27_ToastRemovedOnce ==
    /\ \A i \in 1..MaxToasts :
          (Len(toasts) >= i) ~> (Len(toasts) >= i /\ toasts[i].dom = "gone"
                                    /\ toasts[i].removals = 1)
    /\ [](\A i \in 1..Len(toasts) :
             /\ toasts[i].removals <= 1
             /\ toasts[i].dom = "gone" => toasts[i].removals = 1
             /\ (toasts[i].dom = "gone" /\ ~toasts[i].closed) =>
                    toasts[i].age = DismissDelay + FadeDelay
             /\ toasts[i].age <= DismissDelay + FadeDelay)

\* C27 witness: the first toast is gone by its timers while the second, shown
\* later, is still in the container and the third has been closed.
C27_Witness ==
    /\ Len(toasts) = 3
    /\ toasts[1].dom = "gone" /\ ~toasts[1].closed /\ toasts[1].removals = 1
    /\ toasts[2].dom = "show" /\ toasts[2].age > 0
    /\ toasts[3].dom = "gone" /\ toasts[3].closed /\ toasts[3].timer # "none"

\* C28: every failure of every backend call (the fetch or the parsing fails,
\* the result is unsuccessful, the response handler throws) is settled by the
\* operation that issued the call: the request is gone, the region the
\* operation showed as loading is hidden, a danger toast is raised; and no
\* state blocks a later request: each trigger stays enabled wherever the
\* page offers it (up to the bounds of the run).
RecoveredFrom(r, id) ==
    /\ id \notin loadingClass' /\ loadingInd'[id] = 0
    /\ lastAlert'.type = "danger"
    /\ net' = Take(net, r)
Retriggerable ==
    /\ BagCardinality(net) < MaxInFlight =>
          /\ ENABLED RefreshSymbolsClick
          /\ ENABLED SaveSymbolsClick
          /\ ENABLED ConfigSubmit
          /\ currentSymbol # <<>> => ENABLED RunStrategyClick
    /\ nextSeq <= MaxPerfRequests =>
          /\ currentSymbol # <<>> => ENABLED RefreshPerformanceClick
          /\ currentPosition.kind \in {"error-app", "error-unexpected"} => ENABLED RetryClick
C28_FailuresRecover ==
    /\ []Retriggerable
    /\ [][/\ LoadConfigCatch =>
               /\ "config-form" \notin loadingClass' /\ loadingInd'["config-form"] = 0
               /\ lastAlert'.type = "danger"
          /\ \A r \in InFlight :
               /\ LoadTradingSymbolsCatch(r) =>
                      /\ lastAlert'.type = "danger" /\ net' = Take(net, r)
                      /\ UNCHANGED <<loadingClass, loadingInd>>
               /\ LoadAvailableSymbolsCatch(r) => RecoveredFrom(r, "available-symbols")
               /\ SaveSelectedSymbolsCatch(r) => RecoveredFrom(r, "selected-symbols")
               /\ SaveConfigCatch(r) => RecoveredFrom(r, "config-form")
               /\ RunStrategyCatch(r) => RecoveredFrom(r, "run-strategy")
               /\ RunStrategyThen(r, FALSE) => RecoveredFrom(r, "run-strategy")
               /\ \A ok \in BOOLEAN :
                    /\ (SaveSelectedSymbolsThen(r, ok) /\ ~r.success) =>
                           RecoveredFrom(r, "selected-symbols")
                    /\ (SaveConfigThen(r, ok) /\ ~r.success) => RecoveredFrom(r, "config-form")
               /\ \A resp \in RecoverResponses :
                    ((PerfThen(r, resp) /\ DataError(resp)) \/ PerfCatch(r, resp)) =>
                        /\ RecoveredFrom(r, "performance-stats")
                        /\ currentPosition'.kind \in {"error-app", "error-unexpected"}]_vars

\* C28 witness: a run of the strategy has failed and the user has run it
\* again: the button shows its indicator for the request in flight.
C28_Witness ==
    /\ lastAlert = Alert("danger", "Failed to run strategy. Please try again.")
    /\ KindInFlight(net, "runStrategy")
    /\ "run-strategy" \in loadingClass /\ loadingInd["run-strategy"] = 1

\* C29: Try Again on an error panel issues the performance request for the
\* symbol of the request that failed (the request that settled last, whose
\* panel is shown), whatever symbol is active, and leaves the active symbol
\* as it is.
C29_RetrySameSymbol ==
    [][RetryClick =>
         /\ lastSettled.seq = currentPosition.seq
         /\ lastSettled.kind \in {"rejected", "threw", "app-error"}
         /\ net' = Send(net, PerfRequest(lastSettled.symbol, nextSeq))
         /\ currentSymbol' = currentSymbol]_vars

\* C29 witness: the request issued last is in flight for a symbol other than
\* the active one: only Try Again issues such a request.
C29_Witness ==
    /\ currentSymbol # <<>>
    /\ \E r \in InFlight :
          /\ r.kind = "loadPerformanceData" /\ r.seq = nextSeq - 1
          /\ r.body # currentSymbol

\* C30: once no performance request is in flight, the stats, the position
\* panel, the two charts and the trade history all show the response that
\* settled last and nothing of any other response.
OfLastSettled(seq) == seq \in {0, lastSettled.seq}
C30_ViewsOfLastSettled ==
    (NoPerfInFlight /\ lastSettled.seq > 0) =>
        /\ currentPosition.seq = lastSettled.seq
        /\ OfLastSettled(symbolStats.seq) /\ OfLastSettled(tradeHistory.seq)
        /\ OfLastSettled(priceChart) /\ OfLastSettled(tdiChart)
        /\ lastSettled.kind = "payload" =>
              /\ symbolStats.seq = lastSettled.seq /\ tradeHistory.seq = lastSettled.seq
              /\ priceChart = lastSettled.seq /\ tdiChart = lastSettled.seq

\* C31: when every issued request eventually resolves or rejects, the
\* pipeline never stays in Loading: the loading panel is eventually replaced
\* by a position panel or an error panel; and from either of these a refresh
\* is possible (for a chosen symbol, up to the bound of the run) and enters
\* Loading again.
LoadingView == currentPosition.kind = "loading"
TerminalView == currentPosition.kind \in {"no-position", "long", "short", "error-app",
                                          "error-unexpected"}
C31_LoadingEnds ==
    /\ LoadingView ~> TerminalView
    /\ []((TerminalView /\ currentSymbol # <<>> /\ nextSeq <= MaxPerfRequests) =>
             ENABLED (RefreshPerformanceClick /\ LoadingView'))

\* C31 witness: the first request has ended in Errored and a second one,
\* issued after that, is loading.
C31_Witness ==
    /\ LoadingView /\ nextSeq = 3
    /\ lastSettled.seq = 1 /\ lastSettled.kind \in {"rejected", "threw", "app-error"}
    /\ \E r \in InFlight : r.kind = "loadPerformanceData" /\ r.seq = 2

\* C32 as stated: entering Errored through a transport failure, a non-2xx
\* status or an exception in the response handler leaves both chart handles
\* and the charts untouched; the application-error path disposes of both
\* charts and sets the handles to null.
AppErrorDisposes(r, resp) ==
    (PerfThen(r, resp) /\ DataError(resp)) =>
        priceChart' = 0 /\ tdiChart' = 0 /\ liveCharts' = {}
BodyWithoutStats(resp) == resp.hasError
BodyBreakingLateUpdate(resp) ==
    /\ ~resp.hasError
    /\ \/ "tdi_data" \in resp.payload.absent
       \/ "trade.exit_price" \in resp.payload.absent /\ Len(resp.payload.trades) > 0
PerfInFlight(bag) == {r \in BagToSet(bag) : r.kind = "loadPerformanceData"}
C33_FirstSettleHides ==
    [][\A r \in InFlight, resp \in PerfResponses :
         ((PerfThen(r, resp) \/ PerfCatch(r, resp)) /\ PerfInFlight(net) # {r}) =>
            /\ PerfInFlight(net') # {}
            /\ "performance-stats" \notin loadingClass'
            /\ loadingInd'["performance-stats"] = 0]_vars

\* C33 witness: a performance request is in flight, an earlier one has
\* settled, and the region shows no indicator.
C33_Witness ==
    /\ PerfInFlight(net) # {} /\ lastSettled.seq > 0
    /\ "performance-stats" \notin loadingClass
    /\ loadingInd["performance-stats"] = 0

\* C34: rebuilding the chooser, on a /api/trading_symbols response or a
\* successful save, leaves currentSymbol as it is, also when the symbol is no
\* longer among the options; refresh-performance and run-strategy read only
\* currentSymbol: they stay possible while it is set and issue their request
\* for it.
C34_StaleCurrentSymbol ==
    /\ [][/\ \A r \in InFlight, ok \in BOOLEAN :
               (LoadTradingSymbolsThen(r, ok) \/ SaveSelectedSymbolsThen(r, ok)) =>
                   currentSymbol' = currentSymbol
          /\ RefreshPerformanceClick =>
               net' = Send(net, PerfRequest(currentSymbol, nextSeq))
          /\ RunStrategyClick =>
               net' = Send(net, Request("runStrategy", currentSymbol, NoTag))]_vars
    /\ [](currentSymbol # <<>> =>
             /\ nextSeq <= MaxPerfRequests => ENABLED RefreshPerformanceClick
             /\ BagCardinality(net) < MaxInFlight => ENABLED RunStrategyClick)

\* C34 witness: the current symbol is neither an option of the chooser nor
\* selected, and a run-strategy request for it is in flight, issued after the
\* save that removed it.
C34_Witness ==
    /\ currentSymbol # <<>>
    /\ currentSymbol \notin ToSet(performanceSymbol)
    /\ currentSymbol \notin ToSet(selectedSymbols)
    /\ \E r \in InFlight : r.kind = "runStrategy" /\ r.body = currentSymbol

\* C35: a successful configuration save issues loadTradingSymbols; the backend
\* answers it with the selection it has stored, and the handler of the answer
\* replaces selectedSymbols by the answer whatever it held, sending nothing
\* but the loadAvailableSymbols request: edits not saved before are dropped
\* without reaching the backend.
C35_ConfigSaveDropsEdits ==
    [][/\ \A r \in InFlight, ok \in BOOLEAN :
            /\ (SaveConfigThen(r, ok) /\ r.success) =>
                  \E q \in BagToSet(net') :
                     /\ q.kind = "loadTradingSymbols" /\ q.stage = "sent"
                     /\ CopiesIn(q, net') = CopiesIn(q, net) + 1
            /\ (ServerHandle(r) /\ r.kind = "loadTradingSymbols") =>
                  \E a \in BagToSet(net') :
                     /\ a.kind = "loadTradingSymbols" /\ a.stage = "done"
                     /\ a.data = srvSymbols /\ srvSymbols' = srvSymbols
                     /\ CopiesIn(a, net') = CopiesIn(a, net) + 1
            /\ LoadTradingSymbolsThen(r, ok) =>
                  /\ selectedSymbols' = r.data /\ selectedList' = r.data
                  /\ srvSymbols' = srvSymbols
                  /\ net' = Send(Take(net, r), Request("loadAvailableSymbols", NoData, NoTag))]_vars

\* C35 witness: BTCUSDT was selected and never saved (the backend does not
\* store it, no save is in flight); the reload after a configuration save has
\* replaced the selection, so that BTCUSDT, still missing from the rendered
\* available list it was clicked in, is not selected any more.
C35_Witness ==
    /\ lastAlert = Alert("success", "Configuration saved successfully!")
    /\ KindInFlight(net, "loadAvailableSymbols")
    /\ ~KindInFlight(net, "saveSelectedSymbols")
    /\ persisted = NoTag
    /\ ArrIncludes(availableSymbols, BTCUSDT)
    /\ ~ArrIncludes(availableList, BTCUSDT)
    /\ ~ArrIncludes(selectedSymbols, BTCUSDT)
    /\ ~ArrIncludes(srvSymbols, BTCUSDT)
    /\ selectedSymbols = srvSymbols

\* C36: the success branches of saveSelectedSymbols and of saveConfig write 0
\* into the total-trades count and 0% into the win rate and leave the trade
\* history as it is, rows of trades included.
C36_SaveResetsDashboard ==
    [][\A r \in InFlight, ok \in BOOLEAN :
          ((SaveSelectedSymbolsThen(r, ok) \/ SaveConfigThen(r, ok)) /\ r.success) =>
              /\ totalTradesCount' = 0
              /\ winRate' = WinRateZero
              /\ tradeHistory' = tradeHistory]_vars

\* C36 witness: a configuration save succeeded while the trade history shows
\* rows of trades; the count reads 0 and the win rate 0%.
C36_Witness ==
    /\ tradeHistory.kind = "rows"
    /\ totalTradesCount = 0 /\ winRate = WinRateZero
    /\ lastAlert = Alert("success", "Configuration saved successfully!")

\* C37: the handler of a /api/symbols response renders the answered universe
\* minus selectedSymbols and does not read the search box; typing in the
\* search box and removing a selected symbol render only symbols that contain
\* the query.
MatchesSearch(list, query) ==
    \A i \in 1..Len(list) : StrIncludes(list[i], ToUpperCase(query))

C37_LoadIgnoresSearch ==
    [][/\ \A r \in InFlight, ok \in BOOLEAN :
             LoadAvailableSymbolsThen(r, ok) =>
                 /\ availableList' =
                       SelectSeq(r.data, LAMBDA symbol : ~ArrIncludes(selectedSymbols, symbol))
                 /\ symbolSearch' = symbolSearch
       /\ (Filter \/ Deselect) => MatchesSearch(availableList', symbolSearch')]_vars

\* C37 witness: the search box holds "bt" and the available list shows
\* ETHUSDT, rendered by a response that arrived after the query was typed.
C37_Witness ==
    /\ symbolSearch = <<"b","t">>
    /\ ArrIncludes(availableList, ETHUSDT)
    /\ ~MatchesSearch(availableList, symbolSearch)

\* C38: with /api/trading_symbols answered by collections without duplicates,
\* selectedSymbols holds no symbol twice: select, deselect and typing in the
\* search box keep it free of duplicates.
NoDuplicates(arr) == \A i, j \in 1..Len(arr) : arr[i] = arr[j] => i = j

C38_SelectedWithoutDuplicates ==
    /\ [](NoDuplicates(selectedSymbols))
    /\ [][((Select \/ Deselect \/ Filter) /\ NoDuplicates(selectedSymbols)) =>
             NoDuplicates(selectedSymbols')]_vars
    /\ [][\A r \in InFlight, ok \in BOOLEAN :
             LoadTradingSymbolsThen(r, ok) => NoDuplicates(r.data)]_vars

\* C38 witness: ETHUSDT and BTCUSDT are selected, in an order no stored
\* selection has, while the available list still shows an entry for ETHUSDT
\* that can be clicked.
C38_Witness ==
    /\ selectedSymbols = <<ETHUSDT, BTCUSDT>>
    /\ ArrIncludes(availableList, ETHUSDT)

\* C39: for an open position with entry price, stop loss and a first take
\* profit present and non-zero whose stop loss equals its entry price, the
\* panel shows what toFixed(2) prints for a division by zero: 'Infinity' for a
\* positive reward, '-Infinity' for a negative one, 'NaN' for none; never 'N/A'.
C39_ZeroRiskNotGuarded ==
    [][\A r \in InFlight, p \in RenderedPayloads :
         (PerfThen(r, PayloadResponse(p)) /\ OpenAndComplete(p) /\ p.entry_price = p.stop_loss) =>
            LET E == p.entry_price
                T == p.take_profit_levels[1]
                reward == IF p.position = "long" THEN T - E ELSE E - T
            IN /\ currentPosition'.rr.kind \in {"Infinity", "-Infinity", "NaN"}
               /\ reward > 0 <=> currentPosition'.rr.kind = "Infinity"
               /\ reward < 0 <=> currentPosition'.rr.kind = "-Infinity"]_vars

\* C39 witness: the panel of a short position 100/100/[110] shows -Infinity.
C39_Witness ==
    /\ currentPosition.kind = "short" /\ currentPosition.rr = Ratio("-Infinity", 0)
    /\ lastSettled.kind = "payload"

====
